---------------------------- MODULE Spec2Model ----------------------------
(***************************************************************************)
(* A model of the Topsort demo's auction/attribution engine:               *)
(*   - the mock server (mock/mock-server.ts): personalised auction         *)
(*     resolution, bid-id generation, event ingestion, purchase history;   *)
(*   - the API client (api/topsort-client.ts): createAuction, reportEvent, *)
(*     flushEvents with re-queue on failure, the flush timer, the rolling  *)
(*     success rate, the health derivation and getStatus.                  *)
(* Every await of the source is a step boundary: a call is started by the  *)
(* client, handled by the server after its latency, and completed by the   *)
(* client's continuation.                                                  *)
(***************************************************************************)
EXTENDS Integers, Sequences, FiniteSets, Bags, TLC

(***************************************************************************)
(* Bounds of the model.                                                    *)
(***************************************************************************)
\* createAuction calls that may succeed / fail in one behaviour
MaxAuctionSuccesses == 4
MaxAuctionFailures == 3
\* failed createAuction calls in one behaviour of the outage (SpecOutage)
MaxOutage == 10
\* events passed to reportEvent by callers in one behaviour
MaxEvents == 2
\* flush attempts (timer ticks or flushEvents calls that send) in one behaviour
MaxFlushes == 3
\* calls (auction or events) in flight at the same time
MaxInflight == 2
\* largest value of the millisecond clock
MaxClock == 1
\* largest outcome of Math.random in a bid id (outcomes are 0..MaxRandom)
MaxRandom == 1
\* getStatus values kept under observation
MaxSnapshots == 1
\* slot counts requested beyond the catalog size
MaxExtraSlots == 2
\* purchase item lines ingested by the server in one behaviour of SpecServer
MaxItemLines == 2
MaxServerAuctions == 1
\* clients created through initializeTopsortClient in one behaviour
MaxInstances == 3
\* purchases tracked through the context in one behaviour of SpecAnalytics
MaxPurchases == 3
\* flushes the transport fails before it succeeds for good (SpecDelivery)
MaxFlushFailures == 2
\* purchase item lines ingested in one behaviour of SpecPool
MaxPoolLines == 3
\* createAuction calls that fail / succeed in one behaviour of SpecSticky
MaxStickyFailures == 7
MaxRecoveries == 3

(***************************************************************************)
(* Sequence helpers (JavaScript array operations).                         *)
(***************************************************************************)
Min(a, b) == IF a < b THEN a ELSE b

Max(a, b) == IF a > b THEN a ELSE b

Range(s) == {s[i] : i \in DOMAIN s}

\* Array.prototype.includes
Includes(s, x) == \E i \in DOMAIN s : s[i] = x

\* Array.prototype.slice(0, n): a negative n counts from the end
Slice(s, n) ==
    LET end == IF n < 0 THEN Max(Len(s) + n, 0) ELSE Min(n, Len(s))
    IN  SubSeq(s, 1, end)

\* [...new Set(s)]: first occurrences, in order
RECURSIVE UniqueIds(_)
UniqueIds(s) ==
    IF s = <<>> THEN <<>>
    ELSE LET front == UniqueIds(SubSeq(s, 1, Len(s) - 1))
             last == s[Len(s)]
         IN  IF Includes(front, last) THEN front ELSE Append(front, last)

NoDuplicates(s) == \A i, j \in DOMAIN s : i # j => s[i] # s[j]

(***************************************************************************)
(* The catalog and the sponsorship tables.                                 *)
(***************************************************************************)
\* id, category and price of the catalog; a price is the double of its literal
\* (see Double below)
mockProducts ==
    << [id |-> "prod-001", category |-> "electronics",
        price |-> [hi |-> 157281157, lo |-> 64424512]],  \* 299.99
       [id |-> "prod-002", category |-> "electronics",
        price |-> [hi |-> 131066757, lo |-> 64424512]],  \* 249.99
       [id |-> "prod-003", category |-> "food",
        price |-> [hi |-> 13101957, lo |-> 64424509]],  \* 24.99
       [id |-> "prod-004", category |-> "furniture",
        price |-> [hi |-> 235924357, lo |-> 64424512]],  \* 449.99
       [id |-> "prod-005", category |-> "electronics",
        price |-> [hi |-> 41937797, lo |-> 64424508]],  \* 79.99
       [id |-> "prod-006", category |-> "electronics",
        price |-> [hi |-> 83880837, lo |-> 64424512]],  \* 159.99
       [id |-> "prod-007", category |-> "lifestyle",
        price |-> [hi |-> 18344837, lo |-> 64424510]],  \* 34.99
       [id |-> "prod-008", category |-> "fitness",
        price |-> [hi |-> 26209157, lo |-> 64424510]],  \* 49.99
       [id |-> "prod-009", category |-> "electronics",
        price |-> [hi |-> 31452037, lo |-> 64424510]],  \* 59.99
       [id |-> "prod-010", category |-> "home",
        price |-> [hi |-> 20966277, lo |-> 64424510]],  \* 39.99
       [id |-> "prod-011", category |-> "accessories",
        price |-> [hi |-> 36694917, lo |-> 64424508]],  \* 69.99
       [id |-> "prod-012", category |-> "home",
        price |-> [hi |-> 23587717, lo |-> 64424510]] >>  \* 44.99

CatalogIds == {mockProducts[i].id : i \in DOMAIN mockProducts}

Categories == {mockProducts[i].category : i \in DOMAIN mockProducts}

\* mockProducts.find(p => p.id === id).category, for a catalog id
CategoryOf(id) ==
    mockProducts[CHOOSE i \in DOMAIN mockProducts :
                    mockProducts[i].id = id].category

\* product.price of a catalog product
PriceOf(id) ==
    mockProducts[CHOOSE i \in DOMAIN mockProducts : mockProducts[i].id = id].price

DEFAULT_SPONSORED_IDS == <<"prod-002", "prod-006", "prod-011">>

SPONSORED_BY_CATEGORY ==
    [c \in Categories |->
        CASE c = "electronics" ->
                 <<"prod-001", "prod-002", "prod-005", "prod-006", "prod-009">>
          [] c = "home" -> <<"prod-010", "prod-012">>
          [] c = "lifestyle" -> <<"prod-007">>
          [] c = "fitness" -> <<"prod-008">>
          [] c = "food" -> <<"prod-003">>
          [] c = "furniture" -> <<"prod-004">>
          [] c = "accessories" -> <<"prod-011">>]

relatedCategories ==
    [c \in Categories |->
        CASE c = "electronics" -> <<"accessories", "home">>
          [] c = "accessories" -> <<"electronics", "lifestyle">>
          [] c = "fitness" -> <<"lifestyle", "food">>
          [] c = "home" -> <<"electronics", "furniture">>
          [] c = "lifestyle" -> <<"fitness", "accessories">>
          [] c = "food" -> <<"lifestyle", "home">>
          [] c = "furniture" -> <<"home", "electronics">>]

(***************************************************************************)
(* Purchase history: categories is the Map in insertion order, a sequence  *)
(* of [category, count]; productIds is the Set.                            *)
(***************************************************************************)
EmptyHistory == [categories |-> <<>>, productIds |-> {}]

\* Map.get(category) || 0
CategoryCount(categories, c) ==
    IF \E i \in DOMAIN categories : categories[i].category = c
    THEN categories[CHOOSE i \in DOMAIN categories :
                        categories[i].category = c].count
    ELSE 0

\* Map.set(category, n): an existing key keeps its place, a new one goes last
CategorySet(categories, c, n) ==
    IF \E i \in DOMAIN categories : categories[i].category = c
    THEN [i \in DOMAIN categories |->
             IF categories[i].category = c
             THEN [category |-> c, count |-> n]
             ELSE categories[i]]
    ELSE Append(categories, [category |-> c, count |-> n])

(***************************************************************************)
(* getPersonalizedSponsoredProducts                                        *)
(***************************************************************************)
\* the default branch: catalog order, filtered by the default ids
DefaultSponsored(slots) ==
    Slice(SelectSeq([i \in DOMAIN mockProducts |-> mockProducts[i].id],
                    LAMBDA id : Includes(DEFAULT_SPONSORED_IDS, id)),
          slots)

\* one step of the stable sort by descending count: e goes after every
\* element whose count is not smaller
InsertByCount(sorted, e) ==
    LET k == Cardinality({i \in DOMAIN sorted : sorted[i].count >= e.count})
    IN  SubSeq(sorted, 1, k) \o <<e>> \o SubSeq(sorted, k + 1, Len(sorted))

RECURSIVE SortByCount(_)
SortByCount(entries) ==
    IF entries = <<>> THEN <<>>
    ELSE InsertByCount(SortByCount(SubSeq(entries, 1, Len(entries) - 1)),
                       entries[Len(entries)])

\* the categories in the order of the Map, unsorted
SortedCategoriesUnsorted(categories) ==
    [i \in DOMAIN categories |-> categories[i].category]

\* Array.from(entries).sort((a, b) => b[1] - a[1]).map(([category]) => category)
SortedCategories(categories) ==
    LET sorted == SortByCount(categories)
    IN  [i \in DOMAIN sorted |-> sorted[i].category]

\* first loop: the unpurchased sponsored products of the purchased categories
RECURSIVE PurchasedCategoryCandidates(_, _)
PurchasedCategoryCandidates(sorted, productIds) ==
    IF sorted = <<>> THEN <<>>
    ELSE PurchasedCategoryCandidates(SubSeq(sorted, 1, Len(sorted) - 1),
                                     productIds)
         \o SelectSeq(SPONSORED_BY_CATEGORY[sorted[Len(sorted)]],
                      LAMBDA id : id \notin productIds)

\* the filter of the second loop
RelatedFilter(categoryProducts, productIds, candidateIds) ==
    SelectSeq(categoryProducts,
              LAMBDA id : id \notin productIds /\ ~Includes(candidateIds, id))

\* inner loop over the related categories of one category
RECURSIVE AddRelated(_, _, _)
AddRelated(related, productIds, candidateIds) ==
    IF related = <<>> THEN candidateIds
    ELSE AddRelated(Tail(related), productIds,
                    candidateIds \o RelatedFilter(SPONSORED_BY_CATEGORY[Head(related)],
                                                  productIds, candidateIds))

\* second loop: the related categories of every purchased category
RECURSIVE RelatedCandidates(_, _, _)
RelatedCandidates(sorted, productIds, candidateIds) ==
    IF sorted = <<>> THEN candidateIds
    ELSE RelatedCandidates(Tail(sorted), productIds,
                           AddRelated(relatedCategories[Head(sorted)],
                                      productIds, candidateIds))

\* "if we still need more, add remaining products"
RemainingCandidates(slots, productIds, candidateIds) ==
    IF Len(candidateIds) < slots
    THEN candidateIds
         \o SelectSeq([i \in DOMAIN mockProducts |-> mockProducts[i].id],
                      LAMBDA id : id \notin productIds
                                  /\ ~Includes(candidateIds, id))
    ELSE candidateIds

\* the candidate pool of the personalised branch, before the Set and slice
CandidatePool(slots, history) ==
    LET sorted == SortedCategories(history.categories)
        first == PurchasedCategoryCandidates(sorted, history.productIds)
        second == RelatedCandidates(sorted, history.productIds, first)
    IN  RemainingCandidates(slots, history.productIds, second)

\* a resolver that fills the requested slot count by repeating candidates
GetPersonalizedSponsoredProductsPadded(slots, history) ==
    LET pool == IF Len(history.categories) = 0
                THEN DefaultSponsored(Len(mockProducts))
                ELSE UniqueIds(CandidatePool(slots, history))
    IN  IF pool = <<>> \/ slots < 0 THEN <<>>
        ELSE [i \in 1..slots |-> pool[((i - 1) % Len(pool)) + 1]]

\* a resolver that does not exclude the purchased products
GetPersonalizedSponsoredProductsAll(slots, history) ==
    IF Len(history.categories) = 0 THEN DefaultSponsored(slots)
    ELSE Slice(UniqueIds(CandidatePool(slots, [history EXCEPT !.productIds = {}])),
               slots)

\* the ids of the products the function returns, in order
GetPersonalizedSponsoredProducts(slots, history) ==
    IF Len(history.categories) = 0 THEN DefaultSponsored(slots)
    ELSE SelectSeq(Slice(UniqueIds(CandidatePool(slots, history)), slots),
                   LAMBDA id : id \in CatalogIds)


(***************************************************************************)
(* State.                                                                  *)
(***************************************************************************)
VARIABLES
    \* TopsortClient
    status,          \* this.status; errors is the contents of the errors array
    pendingEvents,   \* this.pendingEvents: [impressions, clicks, purchases]
    flushInterval,   \* TRUE while the setInterval timer is set
    calls,           \* the fetch calls awaiting their continuation, in start order
    \* mock server
    purchaseHistory, \* [categories, productIds]
    simulateErrors,
    errorRate,       \* in percent
    \* environment
    clock,           \* Date.now()
    \* observation of the run
    snapshots,       \* values returned by getStatus: [value, atCall, live]
    outcome,         \* how the last completed client operation ended for its caller
    ingested,        \* catalog ids of the purchases ingested since the last clear
    delivered,       \* bag of the event ids in successfully flushed batches
    owed,            \* event ids a failed flush left for the next successful flush
    lastFlush,       \* the last successful flush: [payload, owed, serial]
    count,           \* how many operations of each kind have run
    scenario,        \* the caller of the end-to-end scenario: [step, first, second]
    \* the singleton
    clientInstance,  \* 0: null; n: the n-th client created (its fields are above)
    retired,         \* flushInterval of the clients replaced so far, set or not
    \* the context provider
    analytics        \* the counters and sums of its analytics state

vars == << status, pendingEvents, flushInterval, calls, purchaseHistory,
           simulateErrors, errorRate, clock, snapshots, outcome, ingested,
           delivered, owed, lastFlush, count, scenario, clientInstance,
           retired, analytics >>

moduleVars == << clientInstance, retired >>

clientVars == << status, pendingEvents, flushInterval, calls >>

serverVars == << purchaseHistory, simulateErrors, errorRate >>

flushObs == << delivered, owed, lastFlush >>

(***************************************************************************)
(* Values.                                                                 *)
(***************************************************************************)
\* null in a timestamp field: no time of the clock
Null == -1

\* resolvedBidId absent (a purchase's optional field left out): no bid id a
\* server issues, whose timestamps are times of the clock
NoBid == [ms |-> -1, suffix |-> <<>>]

\* an event whose id is the empty string: `event.id || ...` takes it for absent
NoId == 0

AUCTIONS == "/auctions"

EVENTS == "/events"

\* auctionSuccessRate is a double; the model keeps it in fixed point,
\* RateScale units per percent
RateScale == 1000 * 1000

EmptyEvents == [impressions |-> <<>>, clicks |-> <<>>, purchases |-> <<>>]

\* the event ids of a batch, impressions then clicks then purchases
EventIds(events) ==
    [i \in DOMAIN events.impressions |-> events.impressions[i].id]
    \o [i \in DOMAIN events.clicks |-> events.clicks[i].id]
    \o [i \in DOMAIN events.purchases |-> events.purchases[i].id]

\* how often x occurs in sequence s
Occurrences(s, x) == Cardinality({i \in DOMAIN s : s[i] = x})

RemoveAt(s, i) == SubSeq(s, 1, i - 1) \o SubSeq(s, i + 1, Len(s))

\* The sums of money are JavaScript numbers (IEEE 754 doubles).  A double of
\* the model is a multiple of 2^-48 below 2^11, kept as two limbs of 29 bits:
\* the value (hi * 2^29 + lo) * 2^-48.  Every catalog price (all of them are
\* 16 or more) and every sum of prices is such a number.
LimbBase == 536870912

Double(hi, lo) == [hi |-> hi, lo |-> lo]

\* the number of bits of n
RECURSIVE BitLength(_)
BitLength(n) == IF n = 0 THEN 0 ELSE 1 + BitLength(n \div 2)

\* a + b in exact arithmetic, before it is rounded
ExactAdd(a, b) ==
    Double(a.hi + b.hi + (a.lo + b.lo) \div LimbBase, (a.lo + b.lo) % LimbBase)

\* a + b on doubles: the exact sum, rounded to the nearest double (ties to
\* even) when it has more than the 53 bits of a significand
DoubleAdd(a, b) ==
    LET sum == ExactAdd(a, b)
        r == BitLength(sum.hi) - 24   \* the bits beyond the significand
        unit == 2 ^ r
        rem == sum.lo % unit
        down == sum.lo - rem
        up == \/ 2 * rem > unit
              \/ 2 * rem = unit /\ (down \div unit) % 2 = 1
        lo == IF up THEN down + unit ELSE down
    IN  IF r <= 0 THEN sum
        ELSE Double(sum.hi + lo \div LimbBase, lo % LimbBase)

\* unitPrice * quantity for a quantity of 1 or 2, which is exact
DoubleTimes(unitPrice, quantity) ==
    IF quantity = 1 THEN unitPrice ELSE DoubleAdd(unitPrice, unitPrice)

\* the analytics state of the context provider: its counters and sums (the
\* event timeline, viewableImpressions and addToCarts are left out); adSpend
\* is in cents
initialAnalytics ==
    [impressions |-> 0,
     clicks |-> 0,
     purchases |-> 0,
     revenue |-> Double(0, 0),
     adSpend |-> 0,
     attributedPurchases |-> 0,
     organicPurchases |-> 0,
     attributedRevenue |-> Double(0, 0),
     organicRevenue |-> Double(0, 0)]

InitialStatus ==
    [apiHealth |-> "healthy",
     lastAuctionCall |-> Null,
     lastEventSent |-> Null,
     auctionSuccessRate |-> 100 * RateScale,
     eventsSentToday |-> 0,
     errors |-> <<>>]

\* the state after the modules are loaded, and the first client constructed if
\* instance = 1 (instance = 0: none yet, its fields are placeholders), seen by a
\* caller at step `step` of the scenario (0: no scenario)
InitWith(step, instance) ==
    /\ clientInstance = instance
    /\ retired = <<>>
    /\ status = InitialStatus
    /\ pendingEvents = EmptyEvents
    /\ flushInterval = (instance # 0)
    /\ calls = <<>>
    /\ purchaseHistory = EmptyHistory
    /\ simulateErrors = FALSE
    /\ errorRate = 0
    /\ clock = 0
    /\ snapshots = <<>>
    /\ outcome = [op |-> IF instance = 0 THEN "import" ELSE "constructor",
                  result |-> "returned"]
    /\ ingested = {}
    /\ delivered = EmptyBag
    /\ owed = [ids |-> {}, serial |-> TRUE]
    /\ lastFlush = [payload |-> <<>>, owed |-> {}, serial |-> TRUE]
    /\ count = [auctionOk |-> 0, auctionErr |-> 0, reported |-> 0,
                flushes |-> 0, itemLines |-> 0]
    /\ scenario = [step |-> step, first |-> <<>>, second |-> <<>>]
    /\ analytics = initialAnalytics

InitAt(step) == InitWith(step, 1)

Init == InitAt(0)


(***************************************************************************)
(* Mock server.                                                            *)
(***************************************************************************)
\* the simulated latency range, in ms
MIN_LATENCY == 50

MAX_LATENCY == 200

Latencies == {MIN_LATENCY, MAX_LATENCY}

\* Math.random() < errorRate, the outcome d in percent
shouldSimulateError(d) == simulateErrors /\ d < errorRate

\* outcomes of Math.random() tried for shouldSimulateError: the least and a large one
ErrorDraws == {0, 99}

ErrorRates == {30, 100}

\* `bid_${Date.now()}_${Math.random().toString(36).substring(2, 11)}`
generateBidId(now, r) == [ms |-> now, suffix |-> r]

\* The outcomes of the successive Math.random() calls of one request, n of them:
\* for each seed the sequence <<seed, 1>>, <<seed, 2>>, ..., and the same sequence
\* with its last outcome equal to its first.
BidDraws(n) ==
    {[i \in 1..n |-> <<seed, IF again /\ i = n THEN 1 ELSE i>>] :
        seed \in 0..MaxRandom, again \in BOOLEAN}

\* the outcomes of Math.random() in the bid ids of a response are those of the
\* first seed, none repeated
PlainDraws(call) ==
    \A j \in DOMAIN call.results :
        \A k \in DOMAIN call.results[j].winners :
            LET suffix == call.results[j].winners[k].resolvedBidId.suffix
            IN  /\ suffix[1] = 0
                /\ suffix[2] = 1 => j = 1 /\ k = 1

\* the outcome of Math.random() tried for a winner's price, in percent
PriceDraw == 30

\* Math.random() * 0.5 + 0.1, in cents
winnerPrice(r) == r \div 2 + 10

\* winners of one slot spec; the request's earlier specs used `offset` outcomes
WinnersOf(ids, now, draws, offset) ==
    [k \in DOMAIN ids |->
        [rank |-> k,
         type |-> "product",
         id |-> ids[k],
         resolvedBidId |-> generateBidId(now, draws[offset + k]),
         winnerPrice |-> winnerPrice(PriceDraw)]]

RECURSIVE WinnerCount(_, _)
WinnerCount(auctions, history) ==
    IF auctions = <<>> THEN 0
    ELSE Len(GetPersonalizedSponsoredProducts(Head(auctions).slots, history))
         + WinnerCount(Tail(auctions), history)

\* results that come in the reverse of the request's order
AuctionResultsReversed(auctions, history, now, draws) ==
    [j \in DOMAIN auctions |->
        LET m == Len(auctions) + 1 - j
        IN  [resultType |-> auctions[m].type,
             winners |-> WinnersOf(
                 GetPersonalizedSponsoredProducts(auctions[m].slots, history),
                 now, draws, WinnerCount(SubSeq(auctions, m + 1, Len(auctions)),
                                         history))]]

\* request.auctions.map(auction => ({resultType, winners}))
AuctionResults(auctions, history, now, draws) ==
    [j \in DOMAIN auctions |->
        [resultType |-> auctions[j].type,
         winners |-> WinnersOf(
             GetPersonalizedSponsoredProducts(auctions[j].slots, history),
             now, draws, WinnerCount(SubSeq(auctions, 1, j - 1), history))]]

\* every bid id of a list of results, in order
RECURSIVE BidsOf(_)
BidsOf(results) ==
    IF results = <<>> THEN <<>>
    ELSE [k \in DOMAIN Head(results).winners |->
             Head(results).winners[k].resolvedBidId]
         \o BidsOf(Tail(results))

RECURSIVE BagOfSeq(_)
BagOfSeq(s) == IF s = <<>> THEN EmptyBag ELSE SetToBag({Head(s)}) (+) BagOfSeq(Tail(s))

\* an ingestion that counts the units bought
IngestItemQuantity(history, item) ==
    IF item.productId \in CatalogIds
    THEN [categories |->
              CategorySet(history.categories, CategoryOf(item.productId),
                          CategoryCount(history.categories,
                                        CategoryOf(item.productId))
                          + item.quantity),
          productIds |-> history.productIds \cup {item.productId}]
    ELSE history

\* an ingestion that records the id of a product the catalog does not have
IngestItemAnyId(history, item) ==
    IF item.productId \in CatalogIds
    THEN [categories |->
              CategorySet(history.categories, CategoryOf(item.productId),
                          CategoryCount(history.categories,
                                        CategoryOf(item.productId)) + 1),
          productIds |-> history.productIds \cup {item.productId}]
    ELSE [history EXCEPT !.productIds = @ \cup {item.productId}]

\* the body of `for (const item of purchase.items)` for one item
IngestItem(history, item) ==
    IF item.productId \in CatalogIds
    THEN [categories |->
              CategorySet(history.categories, CategoryOf(item.productId),
                          CategoryCount(history.categories,
                                        CategoryOf(item.productId)) + 1),
          productIds |-> history.productIds \cup {item.productId}]
    ELSE history

RECURSIVE IngestItems(_, _)
IngestItems(history, items) ==
    IF items = <<>> THEN history
    ELSE IngestItems(IngestItem(history, Head(items)), Tail(items))

\* the purchases loop of handleEventsRequest
RECURSIVE IngestPurchases(_, _)
IngestPurchases(history, purchases) ==
    IF purchases = <<>> THEN history
    ELSE IngestPurchases(IngestItems(history, Head(purchases).items),
                         Tail(purchases))

\* the events of a batch that carry no id
Idless(ids) == {i \in DOMAIN ids : ids[i] = NoId}

\* `evt_${Date.now()}_${Math.random().toString(36).substring(2, 11)}`: event ids
\* are numbers in the model, the generated ones negative, one for each time and
\* outcome <<seed, k>> of Math.random()
generateEventId(now, r) == 0 - (1 + r[2] + 100 * r[1] + 10000 * now)

\* acknowledgements that answer the purchases first
EventAcksPurchasesFirst(body, now, draws) ==
    LET ids == [i \in DOMAIN body.purchases |-> body.purchases[i].id]
               \o [i \in DOMAIN body.impressions |-> body.impressions[i].id]
               \o [i \in DOMAIN body.clicks |-> body.clicks[i].id]
    IN  [i \in DOMAIN ids |->
            [id |-> IF ids[i] # NoId THEN ids[i]
                    ELSE generateEventId(
                             now, draws[Cardinality(Idless(ids) \cap 1..i)]),
             status |-> "received"]]

\* the responses of handleEventsRequest: the impressions loop, the clicks loop,
\* the purchases loop, each pushing `id: event.id || evt_...`; draws are the
\* outcomes of the Math.random() calls, one for each event without id
EventAcks(body, now, draws) ==
    LET ids == EventIds(body)
    IN  [i \in DOMAIN ids |->
            [id |-> IF ids[i] # NoId THEN ids[i]
                    ELSE generateEventId(
                             now, draws[Cardinality(Idless(ids) \cap 1..i)]),
             status |-> "received"]]

RECURSIVE ItemLines(_)
ItemLines(purchases) ==
    IF purchases = <<>> THEN <<>>
    ELSE Head(purchases).items \o ItemLines(Tail(purchases))

\* the product ids of the item lines of a list of purchases
LineIds(purchases) == {line.productId : line \in Range(ItemLines(purchases))}

\* handleAuctionRequest after its delay, the error branch; mockFetch turns the
\* throw into a 500 response carrying the message
ServerAuctionError(i, d) ==
    /\ i \in DOMAIN calls
    /\ calls[i].endpoint = AUCTIONS /\ calls[i].phase = "sent"
    /\ shouldSimulateError(d)
    /\ calls' = [calls EXCEPT ![i].phase = "error",
                              ![i].message = "Auction service temporarily unavailable"]
    /\ UNCHANGED << moduleVars, analytics, status, pendingEvents, flushInterval, serverVars, clock,
                    snapshots, outcome, ingested,
                    flushObs, count, scenario >>

\* a resolving branch that records the winners as purchased
ServerAuctionOkRecording(i, d) ==
    /\ i \in DOMAIN calls
    /\ calls[i].endpoint = AUCTIONS /\ calls[i].phase = "sent"
    /\ ~shouldSimulateError(d)
    /\ \E draws \in BidDraws(WinnerCount(calls[i].auctions, purchaseHistory)) :
          LET results == AuctionResults(calls[i].auctions, purchaseHistory,
                                        clock, draws)
          IN  /\ calls' = [calls EXCEPT ![i].phase = "ok",
                                        ![i].results = results,
                                        ![i].history = purchaseHistory,
                                        ![i].ingested = ingested]
              /\ purchaseHistory' =
                     [purchaseHistory EXCEPT
                         !.productIds = @ \cup {results[1].winners[k].id :
                                                  k \in DOMAIN results[1].winners}]
    /\ UNCHANGED << moduleVars, analytics, status, pendingEvents, flushInterval,
                    simulateErrors, errorRate, clock, snapshots, outcome,
                    ingested, flushObs, count, scenario >>

\* handleAuctionRequest after its delay, the resolving branch
ServerAuctionOk(i, d) ==
    /\ i \in DOMAIN calls
    /\ calls[i].endpoint = AUCTIONS /\ calls[i].phase = "sent"
    /\ ~shouldSimulateError(d)
    /\ \E draws \in BidDraws(WinnerCount(calls[i].auctions, purchaseHistory)) :
          LET results == AuctionResults(calls[i].auctions, purchaseHistory,
                                        clock, draws)
          IN  calls' = [calls EXCEPT ![i].phase = "ok",
                                     ![i].results = results,
                                     ![i].history = purchaseHistory,
                                     ![i].ingested = ingested]
    /\ UNCHANGED << moduleVars, analytics, status, pendingEvents, flushInterval, serverVars, clock,
                    snapshots, outcome, ingested, flushObs, count,
                    scenario >>

\* an error branch taken after the purchases loop has run
ServerEventsErrorPartial(i, d) ==
    /\ i \in DOMAIN calls
    /\ calls[i].endpoint = EVENTS /\ calls[i].phase = "sent"
    /\ shouldSimulateError(d)
    /\ purchaseHistory' = IngestPurchases(purchaseHistory, calls[i].events.purchases)
    /\ calls' = [calls EXCEPT ![i].phase = "error",
                              ![i].message = "Events service temporarily unavailable"]
    /\ UNCHANGED << moduleVars, analytics, status, pendingEvents, flushInterval, simulateErrors,
                    errorRate, clock, snapshots, outcome, ingested,
                    flushObs, count, scenario >>

\* handleEventsRequest after its delay, the error branch
ServerEventsError(i, d) ==
    /\ i \in DOMAIN calls
    /\ calls[i].endpoint = EVENTS /\ calls[i].phase = "sent"
    /\ shouldSimulateError(d)
    /\ calls' = [calls EXCEPT ![i].phase = "error",
                              ![i].message = "Events service temporarily unavailable"]
    /\ UNCHANGED << moduleVars, analytics, status, pendingEvents, flushInterval, serverVars, clock,
                    snapshots, outcome, ingested,
                    flushObs, count, scenario >>

\* handleEventsRequest after its delay, the ingesting branch
ServerEventsOk(i, d) ==
    /\ i \in DOMAIN calls
    /\ calls[i].endpoint = EVENTS /\ calls[i].phase = "sent"
    /\ ~shouldSimulateError(d)
    /\ purchaseHistory' = IngestPurchases(purchaseHistory, calls[i].events.purchases)
    /\ \E draws \in BidDraws(Cardinality(Idless(EventIds(calls[i].events)))) :
          calls' = [calls EXCEPT ![i].phase = "ok",
                                 ![i].results = EventAcks(calls[i].events,
                                                          clock, draws)]
    /\ ingested' = ingested
                   \cup (LineIds(calls[i].events.purchases) \cap CatalogIds)
    /\ count' = [count EXCEPT
                   !.itemLines = @ + Len(ItemLines(calls[i].events.purchases))]
    /\ UNCHANGED << moduleVars, analytics, status, pendingEvents, flushInterval, simulateErrors,
                    errorRate, clock, snapshots, outcome, flushObs, scenario >>

setErrorSimulation(enabled, rate) ==
    /\ simulateErrors' = enabled
    /\ errorRate' = rate
    /\ UNCHANGED << moduleVars, analytics, clientVars, purchaseHistory, clock, snapshots, outcome,
                    ingested, flushObs, count, scenario >>

clearPurchaseHistory ==
    /\ purchaseHistory' = EmptyHistory
    /\ ingested' = {}
    /\ UNCHANGED << moduleVars, analytics, clientVars, simulateErrors, errorRate, clock, snapshots,
                    outcome, flushObs, count, scenario >>

\* time passes
Tick ==
    /\ clock < MaxClock
    /\ clock' = clock + 1
    /\ UNCHANGED << moduleVars, analytics, clientVars, serverVars, snapshots, outcome, ingested, flushObs, count, scenario >>


(***************************************************************************)
(* TopsortClient.                                                          *)
(***************************************************************************)
\* this.status.errors.slice(0, 10)
MaxErrors == 10

\* the thresholds of handleError, in percent
DownBelow == 50

DegradedBelow == 80

\* weight = 0.1, in tenths
WeightTenths == 1

\* an update with weight 0.05
updateSuccessRateSlow(rate, success) ==
    (rate * 19) \div 20 + ((IF success THEN 100 ELSE 0) * RateScale) \div 20

\* rate * (1 - weight) + newValue * weight
updateSuccessRate(rate, success) ==
    (rate * (10 - WeightTenths)) \div 10
    + ((IF success THEN 100 ELSE 0) * RateScale * WeightTenths) \div 10

\* a health assignment with the missing else branch
DeriveHealthRecovering(rate, apiHealth) ==
    IF rate < DownBelow * RateScale THEN "down"
    ELSE IF rate < DegradedBelow * RateScale THEN "degraded"
    ELSE "healthy"

\* a health assignment that demotes on every error
DeriveHealthAlways(rate, apiHealth) ==
    IF rate < DownBelow * RateScale THEN "down" ELSE "degraded"

\* the health assignment at the end of handleError
DeriveHealth(rate, apiHealth) ==
    IF rate < DownBelow * RateScale THEN "down"
    ELSE IF rate < DegradedBelow * RateScale THEN "degraded"
    ELSE apiHealth

ApiError(endpoint, message, now) ==
    [timestamp |-> now, endpoint |-> endpoint, message |-> message]

\* handleError on the status record
handleError(st, endpoint, message, now) ==
    [st EXCEPT
        !.errors = Slice(<<ApiError(endpoint, message, now)>> \o st.errors,
                         MaxErrors),
        !.apiHealth = DeriveHealth(st.auctionSuccessRate, st.apiHealth)]

\* { ...this.status }: a new object whose errors is the same array as
\* this.status.errors (live) until this.status.errors is assigned a new array
Snapshot(st) == [value |-> st, atCall |-> st, live |-> TRUE]

\* what errors.unshift(apiError) followed by the assignment of the slice does to
\* the values getStatus returned earlier
UnshiftShared(snaps, apiError) ==
    [k \in DOMAIN snaps |->
        IF snaps[k].live
        THEN [snaps[k] EXCEPT !.value.errors = <<apiError>> \o @,
                              !.live = FALSE]
        ELSE snaps[k]]

\* this.status.errors = []: no earlier value shares the new array
Unshare(snaps) == [k \in DOMAIN snaps |-> [snaps[k] EXCEPT !.live = FALSE]]

hasEvents(pending) ==
    \/ Len(pending.impressions) > 0
    \/ Len(pending.clicks) > 0
    \/ Len(pending.purchases) > 0

eventCount(events) ==
    Len(events.impressions) + Len(events.clicks) + Len(events.purchases)

\* a reportEvent that puts the new events in front
reportEventPrepend(pending, events) ==
    [impressions |-> events.impressions \o pending.impressions,
     clicks |-> events.clicks \o pending.clicks,
     purchases |-> events.purchases \o pending.purchases]

\* reportEvent on the pending lists
reportEvent(pending, events) ==
    [impressions |-> pending.impressions \o events.impressions,
     clicks |-> pending.clicks \o events.clicks,
     purchases |-> pending.purchases \o events.purchases]

\* a re-queue that overwrites what was reported in the meantime
RequeueOverwrite(pending, eventsToSend) == eventsToSend

\* a catch block that does not re-queue
RequeueNothing(pending, eventsToSend) == pending

\* a catch block that puts the failed batch before the pending events
RequeueAtHead(pending, eventsToSend) ==
    [impressions |-> eventsToSend.impressions \o pending.impressions,
     clicks |-> eventsToSend.clicks \o pending.clicks,
     purchases |-> eventsToSend.purchases \o pending.purchases]

\* a catch block that re-queues the batch twice
RequeueTwice(pending, eventsToSend) ==
    [impressions |-> pending.impressions \o eventsToSend.impressions
                        \o eventsToSend.impressions,
     clicks |-> pending.clicks \o eventsToSend.clicks \o eventsToSend.clicks,
     purchases |-> pending.purchases \o eventsToSend.purchases
                      \o eventsToSend.purchases]

\* "Re-queue events on failure": this.reportEvent(eventsToSend)
Requeue(pending, eventsToSend) == reportEvent(pending, eventsToSend)

IsEventsCall(c) == c.endpoint = EVENTS

FlushInFlight == \E k \in DOMAIN calls : IsEventsCall(calls[k])

NewCall(endpoint, auctions, events, fromTimer) ==
    [endpoint |-> endpoint, auctions |-> auctions, events |-> events,
     fromTimer |-> fromTimer, phase |-> "sent", results |-> <<>>,
     message |-> "", interim |-> {}, overlap |-> FALSE,
     history |-> EmptyHistory, ingested |-> {}, aborted |-> FALSE]

\* const DEFAULT_TIMEOUT = 5000, and a timeout a caller configures instead
DEFAULT_TIMEOUT == 5000

ShortTimeout == 10

ConfigTimeouts == {DEFAULT_TIMEOUT, ShortTimeout}

\* the setTimeout callback of fetch, controller.abort(), on a client configured
\* with `timeout`, while the request (answered after `latency`) is pending.
\* mockFetch never reads init.signal: the abort changes nothing but the signal.
TimeoutAbort(i, timeout, latency) ==
    /\ i \in DOMAIN calls
    /\ calls[i].phase = "sent" /\ ~calls[i].aborted
    /\ timeout < latency
    /\ calls' = [calls EXCEPT ![i].aborted = TRUE]
    /\ UNCHANGED << moduleVars, analytics, status, pendingEvents, flushInterval, serverVars, clock,
                    snapshots, outcome, ingested, flushObs, count, scenario >>

\* the caller of the scenario keeps the response of its first and of its
\* second auction
AuctionObserved(sc, results) ==
    IF sc.step = 1 THEN [sc EXCEPT !.step = 2, !.first = results]
    ELSE IF sc.step = 4 THEN [sc EXCEPT !.step = 5, !.second = results]
    ELSE sc

\* the caller of the scenario sees its flush of the impression, then of the
\* purchase, come back
FlushObserved(sc) ==
    IF sc.step \in {2, 3} THEN [sc EXCEPT !.step = @ + 1] ELSE sc

\* createAuction up to its await
CreateAuction(request) ==
    /\ calls' = Append(calls, NewCall(AUCTIONS, request, EmptyEvents, FALSE))
    /\ UNCHANGED << moduleVars, analytics, status, pendingEvents, flushInterval, serverVars, clock,
                    snapshots, outcome, ingested,
                    flushObs, count, scenario >>

\* createAuction after a successful fetch, as it acts on the client
createAuctionReturn(i) ==
    /\ i \in DOMAIN calls
    /\ calls[i].endpoint = AUCTIONS /\ calls[i].phase = "ok"
    /\ status' = [status EXCEPT
                     !.lastAuctionCall = clock,
                     !.auctionSuccessRate = updateSuccessRate(@, TRUE)]
    /\ outcome' = [op |-> "createAuction", result |-> "returned"]
    /\ calls' = RemoveAt(calls, i)
    /\ count' = [count EXCEPT !.auctionOk = @ + 1]
    /\ scenario' = AuctionObserved(scenario, calls[i].results)
    /\ UNCHANGED << moduleVars, pendingEvents, flushInterval, serverVars, clock,
                    snapshots, ingested, flushObs >>

\* createAuction after a successful fetch, called by a user of the client
AuctionReturn(i) == createAuctionReturn(i) /\ UNCHANGED analytics

\* a catch block that derives the health before it updates the rate
AuctionThrowHealthFirst(i) ==
    /\ i \in DOMAIN calls
    /\ calls[i].endpoint = AUCTIONS /\ calls[i].phase = "error"
    /\ status' = [handleError(status, AUCTIONS, calls[i].message, clock) EXCEPT
                     !.auctionSuccessRate = updateSuccessRate(@, FALSE)]
    /\ snapshots' = UnshiftShared(snapshots,
                                  ApiError(AUCTIONS, calls[i].message, clock))
    /\ outcome' = [op |-> "createAuction", result |-> "thrown"]
    /\ calls' = RemoveAt(calls, i)
    /\ count' = [count EXCEPT !.auctionErr = @ + 1]
    /\ UNCHANGED << moduleVars, analytics, pendingEvents, flushInterval, serverVars, clock, ingested, flushObs, scenario >>

\* createAuction's catch block
AuctionThrow(i) ==
    /\ i \in DOMAIN calls
    /\ calls[i].endpoint = AUCTIONS /\ calls[i].phase = "error"
    /\ status' = handleError(
           [status EXCEPT !.auctionSuccessRate = updateSuccessRate(@, FALSE)],
           AUCTIONS, calls[i].message, clock)
    /\ snapshots' = UnshiftShared(snapshots,
                                  ApiError(AUCTIONS, calls[i].message, clock))
    /\ outcome' = [op |-> "createAuction", result |-> "thrown"]
    /\ calls' = RemoveAt(calls, i)
    /\ count' = [count EXCEPT !.auctionErr = @ + 1]
    /\ UNCHANGED << moduleVars, analytics, pendingEvents, flushInterval, serverVars, clock, ingested, flushObs, scenario >>

\* reportEvent as it acts on the client
Enqueue(events) ==
    /\ pendingEvents' = reportEvent(pendingEvents, events)
    /\ calls' = [k \in DOMAIN calls |->
                    IF IsEventsCall(calls[k])
                    THEN [calls[k] EXCEPT !.interim = @ \cup Range(EventIds(events))]
                    ELSE calls[k]]
    /\ count' = [count EXCEPT !.reported = @ + eventCount(events)]
    /\ UNCHANGED << moduleVars, status, flushInterval, serverVars, clock, snapshots,
                    outcome, ingested, flushObs, scenario >>

\* reportEvent called by a user of the client
ReportEvent(events) == Enqueue(events) /\ UNCHANGED analytics


\* a flushEvents that sends its request whether events wait or not
FlushEmptySending ==
    /\ ~hasEvents(pendingEvents)
    /\ pendingEvents' = EmptyEvents
    /\ calls' = Append(calls, NewCall(EVENTS, <<>>, pendingEvents, FALSE))
    /\ UNCHANGED << moduleVars, analytics, status, flushInterval, serverVars, clock, snapshots,
                    outcome, ingested, flushObs, count, scenario >>

\* flushEvents with an empty queue: `if (!hasEvents) return []`
FlushEmpty ==
    /\ ~hasEvents(pendingEvents)
    /\ outcome' = [op |-> "flushEvents", result |-> "returned", acks |-> <<>>]
    /\ UNCHANGED << moduleVars, analytics, clientVars, serverVars, clock, snapshots, ingested, flushObs, count, scenario >>

\* the interval callback with an empty queue: `if (hasEvents)` fails, nothing runs
TimerIdle ==
    /\ flushInterval
    /\ ~hasEvents(pendingEvents)
    /\ outcome' = [op |-> "timer", result |-> "idle"]
    /\ UNCHANGED << moduleVars, analytics, clientVars, serverVars, clock, snapshots, ingested, flushObs, count, scenario >>

\* a flush whose timer callback still runs after clearInterval
FlushStartUncancelled(fromTimer) ==
    /\ hasEvents(pendingEvents)
    /\ pendingEvents' = EmptyEvents
    /\ calls' = Append(
           [k \in DOMAIN calls |->
               IF IsEventsCall(calls[k]) THEN [calls[k] EXCEPT !.overlap = TRUE]
               ELSE calls[k]],
           [NewCall(EVENTS, <<>>, pendingEvents, fromTimer)
               EXCEPT !.overlap = FlushInFlight])
    /\ owed' = [owed EXCEPT !.serial = @ /\ ~FlushInFlight]
    /\ count' = [count EXCEPT !.flushes = @ + 1]
    /\ UNCHANGED << moduleVars, analytics, status, flushInterval, serverVars, clock, snapshots,
                    outcome, ingested, delivered,
                    lastFlush, scenario >>

\* a flushEvents that sends the queue without emptying it
FlushStartKeeping(fromTimer) ==
    /\ fromTimer => flushInterval
    /\ hasEvents(pendingEvents)
    /\ calls' = Append(calls, NewCall(EVENTS, <<>>, pendingEvents, fromTimer))
    /\ count' = [count EXCEPT !.flushes = @ + 1]
    /\ UNCHANGED << moduleVars, analytics, status, pendingEvents, flushInterval, serverVars,
                    clock, snapshots, outcome, ingested, flushObs, scenario >>

\* flushEvents up to its await; fromTimer: called by the setInterval callback,
\* which checks hasEvents itself and runs only while the timer is set
FlushStart(fromTimer) ==
    /\ fromTimer => flushInterval
    /\ hasEvents(pendingEvents)
    /\ pendingEvents' = EmptyEvents
    /\ calls' = Append(
           [k \in DOMAIN calls |->
               IF IsEventsCall(calls[k]) THEN [calls[k] EXCEPT !.overlap = TRUE]
               ELSE calls[k]],
           [NewCall(EVENTS, <<>>, pendingEvents, fromTimer)
               EXCEPT !.overlap = FlushInFlight])
    /\ owed' = [owed EXCEPT !.serial = @ /\ ~FlushInFlight]
    /\ count' = [count EXCEPT !.flushes = @ + 1]
    /\ UNCHANGED << moduleVars, analytics, status, flushInterval, serverVars, clock, snapshots,
                    outcome, ingested, delivered,
                    lastFlush, scenario >>

\* a success path that counts one event per flush
FlushReturnCountsOne(i) ==
    /\ i \in DOMAIN calls
    /\ IsEventsCall(calls[i]) /\ calls[i].phase = "ok"
    /\ status' = [status EXCEPT !.lastEventSent = clock,
                                !.eventsSentToday = @ + 1]
    /\ outcome' = [op |-> IF calls[i].fromTimer THEN "timer" ELSE "flushEvents",
                   result |-> "returned"]
    /\ delivered' = delivered (+) BagOfSeq(EventIds(calls[i].events))
    /\ lastFlush' = [payload |-> EventIds(calls[i].events),
                     owed |-> owed.ids,
                     serial |-> owed.serial /\ ~calls[i].overlap]
    /\ owed' = [ids |-> {}, serial |-> TRUE]
    /\ calls' = RemoveAt(calls, i)
    /\ scenario' = FlushObserved(scenario)
    /\ UNCHANGED << moduleVars, analytics, pendingEvents, flushInterval, serverVars, clock, snapshots,
                    ingested, count >>

\* a success path that puts the acknowledged batch back in the queue
FlushReturnRequeueing(i) ==
    /\ i \in DOMAIN calls
    /\ IsEventsCall(calls[i]) /\ calls[i].phase = "ok"
    /\ pendingEvents' = Requeue(pendingEvents, calls[i].events)
    /\ status' = [status EXCEPT
                     !.lastEventSent = clock,
                     !.eventsSentToday = @ + eventCount(calls[i].events)]
    /\ outcome' = [op |-> IF calls[i].fromTimer THEN "timer" ELSE "flushEvents",
                   result |-> "returned"]
    /\ delivered' = delivered (+) BagOfSeq(EventIds(calls[i].events))
    /\ calls' = RemoveAt(calls, i)
    /\ UNCHANGED << moduleVars, analytics, flushInterval, serverVars, clock, snapshots,
                    ingested, owed, lastFlush, count, scenario >>

\* flushEvents after a successful fetch
FlushReturn(i) ==
    /\ i \in DOMAIN calls
    /\ IsEventsCall(calls[i]) /\ calls[i].phase = "ok"
    /\ status' = [status EXCEPT
                     !.lastEventSent = clock,
                     !.eventsSentToday = @ + eventCount(calls[i].events)]
    /\ outcome' = [op |-> IF calls[i].fromTimer THEN "timer" ELSE "flushEvents",
                   result |-> "returned"]
    /\ delivered' = delivered (+) BagOfSeq(EventIds(calls[i].events))
    /\ lastFlush' = [payload |-> EventIds(calls[i].events),
                     owed |-> owed.ids,
                     serial |-> owed.serial /\ ~calls[i].overlap]
    /\ owed' = [ids |-> {}, serial |-> TRUE]
    /\ calls' = RemoveAt(calls, i)
    /\ scenario' = FlushObserved(scenario)
    /\ UNCHANGED << moduleVars, analytics, pendingEvents, flushInterval, serverVars, clock, snapshots,
                    ingested, count >>

\* a catch block whose rethrown error reaches a caller from the timer callback too
FlushThrowPropagating(i) ==
    /\ i \in DOMAIN calls
    /\ IsEventsCall(calls[i]) /\ calls[i].phase = "error"
    /\ pendingEvents' = Requeue(pendingEvents, calls[i].events)
    /\ status' = handleError(status, EVENTS, calls[i].message, clock)
    /\ snapshots' = UnshiftShared(snapshots,
                                  ApiError(EVENTS, calls[i].message, clock))
    /\ outcome' = [op |-> IF calls[i].fromTimer THEN "timer" ELSE "flushEvents",
                   result |-> "thrown"]
    /\ owed' = [ids |-> owed.ids \cup Range(EventIds(calls[i].events))
                        \cup calls[i].interim,
                serial |-> (owed.ids = {} \/ owed.serial) /\ ~calls[i].overlap]
    /\ calls' = RemoveAt(calls, i)
    /\ UNCHANGED << moduleVars, analytics, flushInterval, serverVars, clock,
                    ingested, delivered, lastFlush, count, scenario >>

\* a catch block that sends the failed batch again at once
FlushThrowRetrying(i) ==
    /\ i \in DOMAIN calls
    /\ IsEventsCall(calls[i]) /\ calls[i].phase = "error"
    /\ status' = handleError(status, EVENTS, calls[i].message, clock)
    /\ snapshots' = UnshiftShared(snapshots,
                                  ApiError(EVENTS, calls[i].message, clock))
    /\ calls' = Append(RemoveAt(calls, i),
                       NewCall(EVENTS, <<>>, calls[i].events, calls[i].fromTimer))
    /\ count' = [count EXCEPT !.flushes = @ + 1]
    /\ UNCHANGED << moduleVars, analytics, pendingEvents, flushInterval, serverVars, clock,
                    outcome, ingested, flushObs, scenario >>

\* flushEvents' catch block; the timer callback swallows the rethrown error
FlushThrow(i) ==
    /\ i \in DOMAIN calls
    /\ IsEventsCall(calls[i]) /\ calls[i].phase = "error"
    /\ pendingEvents' = Requeue(pendingEvents, calls[i].events)
    /\ status' = handleError(status, EVENTS, calls[i].message, clock)
    /\ snapshots' = UnshiftShared(snapshots,
                                  ApiError(EVENTS, calls[i].message, clock))
    /\ outcome' = [op |-> IF calls[i].fromTimer THEN "timer" ELSE "flushEvents",
                   result |-> IF calls[i].fromTimer THEN "swallowed" ELSE "thrown"]
    /\ owed' = [ids |-> owed.ids \cup Range(EventIds(calls[i].events))
                        \cup calls[i].interim,
                serial |-> (owed.ids = {} \/ owed.serial) /\ ~calls[i].overlap]
    /\ calls' = RemoveAt(calls, i)
    /\ UNCHANGED << moduleVars, analytics, flushInterval, serverVars, clock, ingested, delivered, lastFlush, count, scenario >>

getStatus ==
    /\ snapshots' = Append(snapshots, Snapshot(status))
    /\ UNCHANGED << moduleVars, analytics, clientVars, serverVars, clock, outcome, ingested, flushObs, count, scenario >>

\* a clearErrors that resets the health with the log
clearErrorsResetting ==
    /\ status' = [status EXCEPT !.errors = <<>>,
                                !.auctionSuccessRate = 100 * RateScale,
                                !.apiHealth = "healthy"]
    /\ snapshots' = Unshare(snapshots)
    /\ UNCHANGED << moduleVars, analytics, pendingEvents, flushInterval, calls,
                    serverVars, clock, outcome, ingested, flushObs, count,
                    scenario >>

clearErrors ==
    /\ status' = [status EXCEPT !.errors = <<>>]
    /\ snapshots' = Unshare(snapshots)
    /\ UNCHANGED << moduleVars, analytics, pendingEvents, flushInterval, calls, serverVars, clock,
                    outcome, ingested, flushObs, count,
                    scenario >>

destroy ==
    /\ flushInterval' = FALSE
    /\ UNCHANGED << moduleVars, analytics, status, pendingEvents, calls, serverVars, clock, snapshots,
                    outcome, ingested, flushObs, count,
                    scenario >>


(***************************************************************************)
(* Inputs.                                                                 *)
(***************************************************************************)
\* a bid id a caller took from an earlier response
SomeBid == [ms |-> 0, suffix |-> <<0, 1>>]

Impression(id, bid) == [id |-> id, resolvedBidId |-> bid]

Click(id, bid) == [id |-> id, resolvedBidId |-> bid]

\* one item line of a purchase (unitPrice, which no code of the model reads from
\* the event, is left out)
Item(productId, quantity) == [productId |-> productId, quantity |-> quantity]

Purchase(id, items, bid) == [id |-> id, items |-> items, resolvedBidId |-> bid]

ListingsRequest(slots) == << [type |-> "listings", slots |-> slots] >>

\* the calls to `endpoint` the server has answered with `phase`, not yet continued
Answered(endpoint, phase) ==
    Cardinality({k \in DOMAIN calls :
                    calls[k].endpoint = endpoint /\ calls[k].phase = phase})

AuctionsInFlight ==
    Cardinality({k \in DOMAIN calls : calls[k].endpoint = AUCTIONS})

\* the server steps of the auction calls, within the bounds on their outcomes
ServeAuction(i, d) ==
    \/ /\ count.auctionErr + Answered(AUCTIONS, "error") < MaxAuctionFailures
       /\ ServerAuctionError(i, d)
    \/ /\ count.auctionOk + Answered(AUCTIONS, "ok") < MaxAuctionSuccesses
       /\ ServerAuctionOk(i, d)

ServeEvents(i, d) ==
    \/ ServerEventsError(i, d)
    \/ ServerEventsOk(i, d)

(***************************************************************************)
(* The singleton (part of the client module) and the operations of the     *)
(* context (TopsortContext.tsx), whose clientRef holds the singleton.  Of  *)
(* the provider's React state the model keeps the analytics; its logs, its *)
(* event timeline and its copy of the status are display state.            *)
(***************************************************************************)
\* initializeTopsortClient without the destroy() of the prior instance
initializeTopsortClientLeaky ==
    /\ retired' = IF clientInstance # 0 THEN Append(retired, flushInterval)
                  ELSE retired
    /\ clientInstance' = Len(retired') + 1
    /\ status' = InitialStatus
    /\ pendingEvents' = EmptyEvents
    /\ flushInterval' = TRUE
    /\ outcome' = [op |-> "initialize", result |-> "returned"]
    /\ UNCHANGED << analytics, calls, serverVars, clock, snapshots, ingested,
                    flushObs, count, scenario >>

\* initializeTopsortClient, called by the context's initialize: destroy() on the
\* prior instance if there is one, then the constructor (startEventBatching)
initializeTopsortClient ==
    /\ retired' = IF clientInstance # 0 THEN Append(retired, FALSE) ELSE retired
    /\ clientInstance' = Len(retired') + 1
    /\ status' = InitialStatus
    /\ pendingEvents' = EmptyEvents
    /\ flushInterval' = TRUE
    /\ outcome' = [op |-> "initialize", result |-> "returned"]
    /\ UNCHANGED << analytics, calls, serverVars, clock, snapshots, ingested,
                    flushObs, count, scenario >>

\* an operation that ends at once with `result` and touches nothing
EndsWith(op, result) ==
    /\ outcome' = [op |-> op, result |-> result]
    /\ UNCHANGED << moduleVars, analytics, clientVars, serverVars, clock, snapshots,
                    ingested, flushObs, count, scenario >>

getTopsortClient ==
    IF clientInstance = 0
    THEN EndsWith("getTopsortClient", "thrown")
    ELSE /\ outcome' = [op |-> "getTopsortClient", result |-> "returned",
                        instance |-> clientInstance]
         /\ UNCHANGED << moduleVars, analytics, clientVars, serverVars, clock, snapshots,
                         ingested, flushObs, count, scenario >>

\* runAuction up to its await
runAuction(request) ==
    IF clientInstance = 0
    THEN EndsWith("runAuction", "thrown")
    ELSE CreateAuction(request)

\* the sum of the winner prices of a list of winners
RECURSIVE SumPrices(_)
SumPrices(winners) ==
    IF winners = <<>> THEN 0
    ELSE Head(winners).winnerPrice + SumPrices(Tail(winners))

\* totalSpend: the winner prices of every result of a response
RECURSIVE TotalSpend(_)
TotalSpend(results) ==
    IF results = <<>> THEN 0
    ELSE SumPrices(Head(results).winners) + TotalSpend(Tail(results))

\* runAuction after createAuction has returned (a createAuction that throws
\* ends runAuction too, with AuctionThrow)
runAuctionReturn(i) ==
    /\ createAuctionReturn(i)
    /\ analytics' = [analytics EXCEPT
                        !.adSpend = @ + TotalSpend(calls[i].results)]

\* the track* operations; crypto.randomUUID() is the next unused event id
trackImpression(resolvedBidId) ==
    IF clientInstance = 0
    THEN EndsWith("trackImpression", "returned")
    ELSE /\ Enqueue([EmptyEvents EXCEPT
                !.impressions = <<Impression(count.reported + 1, resolvedBidId)>>])
         /\ analytics' = [analytics EXCEPT !.impressions = @ + 1]

trackClick(resolvedBidId) ==
    IF clientInstance = 0
    THEN EndsWith("trackClick", "returned")
    ELSE /\ Enqueue([EmptyEvents EXCEPT
                !.clicks = <<Click(count.reported + 1, resolvedBidId)>>])
         /\ analytics' = [analytics EXCEPT !.clicks = @ + 1]

\* resolvedBidId = NoBid: the argument left out
trackPurchase(productId, quantity, unitPrice, resolvedBidId) ==
    IF clientInstance = 0
    THEN EndsWith("trackPurchase", "returned")
    ELSE LET revenue == DoubleTimes(unitPrice, quantity)
             isAttributed == resolvedBidId # NoBid
         IN  /\ Enqueue([EmptyEvents EXCEPT
                    !.purchases = <<Purchase(count.reported + 1,
                                             <<Item(productId, quantity)>>,
                                             resolvedBidId)>>])
             /\ analytics' = [analytics EXCEPT
                    !.purchases = @ + 1,
                    !.revenue = DoubleAdd(@, revenue),
                    !.attributedPurchases = @ + (IF isAttributed THEN 1 ELSE 0),
                    !.organicPurchases = @ + (IF isAttributed THEN 0 ELSE 1),
                    !.attributedRevenue =
                        IF isAttributed THEN DoubleAdd(@, revenue) ELSE @,
                    !.organicRevenue =
                        IF isAttributed THEN @ ELSE DoubleAdd(@, revenue)]

clearAnalytics ==
    /\ analytics' = initialAnalytics
    /\ UNCHANGED << moduleVars, clientVars, serverVars, clock, snapshots,
                    outcome, ingested, flushObs, count, scenario >>

(***************************************************************************)
(* SpecSingleton: from the loaded modules, before any client exists: the   *)
(* context's operations, initialize (again, with no request in flight),    *)
(* destroy, and the flushes and the auction of the current client.         *)
(***************************************************************************)
InitModule == InitWith(0, 0)

NextSingleton ==
    \/ /\ calls = <<>> /\ clientInstance < MaxInstances
       /\ initializeTopsortClient
    \/ getTopsortClient
    \/ /\ calls = <<>> /\ count.auctionOk < MaxServerAuctions
       /\ runAuction(ListingsRequest(3))
    \/ \E i \in DOMAIN calls : ServerAuctionOk(i, 0)
    \/ \E i \in DOMAIN calls : runAuctionReturn(i)
    \/ /\ clientInstance = 0 \/ count.reported < MaxEvents
       /\ trackImpression(SomeBid)
    \/ /\ clientInstance = 0 \/ count.reported < MaxEvents
       /\ trackClick(SomeBid)
    \/ /\ clientInstance = 0 \/ count.reported < MaxEvents
       /\ trackPurchase("prod-002", 1, PriceOf("prod-002"), NoBid)
    \/ /\ calls = <<>>
       /\ \E fromTimer \in BOOLEAN : FlushStart(fromTimer)
    \/ \E i \in DOMAIN calls : ServerEventsOk(i, 0)
    \/ \E i \in DOMAIN calls : FlushReturn(i)
    \/ /\ clientInstance # 0 /\ flushInterval
       /\ destroy

SpecSingleton == InitModule /\ [][NextSingleton]_vars

(***************************************************************************)
(* SpecHealth: one client against the mock server with error simulation    *)
(* switched on and off; auctions of three slots, one reported impression,  *)
(* one call at a time; the error log cleared.                              *)
(***************************************************************************)
NextHealth ==
    \/ \E enabled \in BOOLEAN : setErrorSimulation(enabled, 30)
    \/ /\ Len(calls) < 1
       /\ CreateAuction(ListingsRequest(3))
    \/ \E i \in DOMAIN calls, d \in ErrorDraws : ServeAuction(i, d)
    \/ \E i \in DOMAIN calls : AuctionReturn(i)
    \/ \E i \in DOMAIN calls : AuctionThrow(i)
    \/ /\ count.reported < 1
       /\ ReportEvent([EmptyEvents EXCEPT
              !.impressions = <<Impression(count.reported + 1, SomeBid)>>])
    \/ /\ Len(calls) < 1 /\ count.flushes < 1
       /\ FlushStart(TRUE)
    \/ \E i \in DOMAIN calls, d \in ErrorDraws : ServeEvents(i, d)
    \/ \E i \in DOMAIN calls : FlushReturn(i)
    \/ \E i \in DOMAIN calls : FlushThrow(i)
    \/ /\ status.errors # <<>>
       /\ clearErrors

SpecHealth == Init /\ [][NextHealth]_vars

(***************************************************************************)
(* SpecFlushHealth: flushes that fail again and again, and flushes of an   *)
(* empty queue.  One client against the mock server with error            *)
(* simulation; one impression is reported and flushed, by the timer or by  *)
(* a caller, until a flush succeeds, among auctions of three slots that    *)
(* succeed or fail; one call at a time.                                    *)
(***************************************************************************)
NextFlushHealth ==
    \/ /\ ~simulateErrors
       /\ setErrorSimulation(TRUE, 30)
    \/ /\ Len(calls) < 1
       /\ CreateAuction(ListingsRequest(3))
    \/ \E i \in DOMAIN calls, d \in ErrorDraws : ServeAuction(i, d)
    \/ \E i \in DOMAIN calls : AuctionReturn(i)
    \/ \E i \in DOMAIN calls : AuctionThrow(i)
    \/ /\ count.reported < 1
       /\ ReportEvent([EmptyEvents EXCEPT
              !.impressions = <<Impression(count.reported + 1, SomeBid)>>])
    \/ \E fromTimer \in BOOLEAN :
          /\ Len(calls) < 1 /\ count.flushes < MaxFlushes
          /\ FlushStart(fromTimer)
    \/ FlushEmpty
    \/ TimerIdle
    \/ \E i \in DOMAIN calls, d \in ErrorDraws : ServeEvents(i, d)
    \/ \E i \in DOMAIN calls : FlushReturn(i)
    \/ \E i \in DOMAIN calls : FlushThrow(i)

SpecFlushHealth == Init /\ [][NextFlushHealth]_vars

(***************************************************************************)
(* SpecSticky: the health of one client through an outage and after it:    *)
(* auctions fail, often enough for 'down', or succeed, often enough for   *)
(* a rate of 80 again, in any order; one impression is reported and        *)
(* flushed once; the error log is cleared; one call at a time.             *)
(***************************************************************************)
NextSticky ==
    \/ /\ ~simulateErrors
       /\ setErrorSimulation(TRUE, 30)
    \/ /\ Len(calls) < 1
       /\ CreateAuction(ListingsRequest(3))
    \/ \E i \in DOMAIN calls, d \in ErrorDraws :
          \/ /\ count.auctionErr < MaxStickyFailures
             /\ ServerAuctionError(i, d)
          \/ /\ count.auctionOk < MaxRecoveries
             /\ ServerAuctionOk(i, d) /\ PlainDraws(calls'[i])
    \/ \E i \in DOMAIN calls : AuctionReturn(i)
    \/ \E i \in DOMAIN calls : AuctionThrow(i)
    \/ /\ count.reported < 1
       /\ ReportEvent([EmptyEvents EXCEPT
              !.impressions = <<Impression(count.reported + 1, SomeBid)>>])
    \/ /\ Len(calls) < 1 /\ count.flushes < 1
       /\ FlushStart(TRUE)
    \/ \E i \in DOMAIN calls, d \in ErrorDraws : ServeEvents(i, d)
    \/ \E i \in DOMAIN calls : FlushReturn(i)
    \/ \E i \in DOMAIN calls : FlushThrow(i)
    \/ /\ status.errors # <<>>
       /\ clearErrors

SpecSticky == Init /\ [][NextSticky]_vars

(***************************************************************************)
(* SpecOutage: the server fails every call (errorRate = 1.0).              *)
(***************************************************************************)
NextOutage ==
    \/ /\ ~simulateErrors
       /\ setErrorSimulation(TRUE, 100)
    \/ /\ simulateErrors /\ Len(calls) < 1
       /\ count.auctionErr < MaxOutage
       /\ CreateAuction(ListingsRequest(3))
    \/ \E i \in DOMAIN calls, d \in ErrorDraws : ServerAuctionError(i, d)
    \/ \E i \in DOMAIN calls : AuctionThrow(i)
    \/ /\ simulateErrors /\ count.reported < 1
       /\ ReportEvent([EmptyEvents EXCEPT
              !.impressions = <<Impression(count.reported + 1, SomeBid)>>])
    \/ /\ simulateErrors /\ Len(calls) < 1 /\ count.flushes < 1
       /\ FlushStart(TRUE)
    \/ \E i \in DOMAIN calls, d \in ErrorDraws : ServerEventsError(i, d)
    \/ \E i \in DOMAIN calls : FlushThrow(i)
    \/ /\ Len(snapshots) < MaxSnapshots
       /\ getStatus

SpecOutage == Init /\ [][NextOutage]_vars


(***************************************************************************)
(* SpecQueue: the event queue of one client against the mock server:       *)
(* reported events, timer and explicit flushes that may overlap, failures, *)
(* teardown.                                                               *)
(***************************************************************************)
\* the event sets a caller passes to reportEvent, ids from n + 1 on
ReportInputs(n) ==
    { [EmptyEvents EXCEPT !.impressions = <<Impression(n + 1, SomeBid)>>],
      [EmptyEvents EXCEPT !.clicks = <<Click(n + 1, SomeBid)>>],
      [EmptyEvents EXCEPT !.purchases = <<Purchase(n + 1, <<Item("prod-002", 1)>>, NoBid)>>],
      [EmptyEvents EXCEPT !.impressions = <<Impression(n + 1, SomeBid)>>,
                          !.purchases = <<Purchase(n + 2, <<Item("prod-002", 1)>>, SomeBid)>>] }

NextQueue ==
    \/ /\ ~simulateErrors
       /\ setErrorSimulation(TRUE, 30)
    \/ \E events \in ReportInputs(count.reported) :
          /\ count.reported + eventCount(events) <= MaxEvents
          /\ ReportEvent(events)
    \/ \E fromTimer \in BOOLEAN :
          /\ Len(calls) < MaxInflight /\ count.flushes < MaxFlushes
          /\ FlushStart(fromTimer)
    \/ FlushEmpty
    \/ \E i \in DOMAIN calls, d \in ErrorDraws : ServeEvents(i, d)
    \/ \E i \in DOMAIN calls : FlushReturn(i)
    \/ \E i \in DOMAIN calls : FlushThrow(i)
    \/ /\ flushInterval
       /\ destroy

SpecQueue == Init /\ [][NextQueue]_vars

(***************************************************************************)
(* SpecServer: the mock server behind one client, without error            *)
(* simulation: purchases of any catalog product (and of an unknown one)    *)
(* are reported and flushed, auctions ask for any slot count, one call at  *)
(* a time.  The bid ids of a response take one sequence of outcomes of     *)
(* Math.random().                                                          *)
(***************************************************************************)
SlotCounts == 1..(Len(mockProducts) + MaxExtraSlots)

UnknownId == "prod-999"

\* the requests of SpecServer: one slot spec, or a listings and a banners spec
ServerRequests ==
    {ListingsRequest(n) : n \in SlotCounts}
    \cup {<< [type |-> "listings", slots |-> 3], [type |-> "banners", slots |-> 1] >>}

\* item lines reported so far: ingested, or still on their way
LinesUnderWay ==
    count.itemLines + Len(ItemLines(pendingEvents.purchases))
    + Len(ItemLines(IF calls # <<>> THEN calls[1].events.purchases ELSE <<>>))

NextServer ==
    \/ /\ calls = <<>> /\ count.auctionOk < MaxServerAuctions
       /\ \E request \in ServerRequests : CreateAuction(request)
    \/ \E i \in DOMAIN calls : ServerAuctionOk(i, 0) /\ PlainDraws(calls'[i])
    \/ \E i \in DOMAIN calls : AuctionReturn(i)
    \/ /\ LinesUnderWay < MaxItemLines
       /\ ~hasEvents(pendingEvents)
       /\ \E id \in CatalogIds \cup {UnknownId} :
             ReportEvent([EmptyEvents EXCEPT
                 !.purchases = <<Purchase(count.reported + 1, <<Item(id, 1)>>, SomeBid)>>])
    \/ /\ calls = <<>>
       /\ FlushStart(TRUE)
    \/ \E i \in DOMAIN calls : ServerEventsOk(i, 0)
    \/ \E i \in DOMAIN calls : FlushReturn(i)
    \/ /\ purchaseHistory # EmptyHistory
       /\ clearPurchaseHistory

SpecServer == Init /\ [][NextServer]_vars

(***************************************************************************)
(* SpecPool: the candidate pool of the personalised branch.  Purchases of  *)
(* a few catalog products (of food, fitness, home and electronics, whose   *)
(* related categories overlap) are reported and flushed, one line each,    *)
(* so that a category bought later can have the larger count; auctions ask *)
(* for any slot count, one call at a time.                                 *)
(***************************************************************************)
PoolPurchases == {"prod-001", "prod-003", "prod-008", "prod-010", "prod-012"}

NextPool ==
    \/ /\ calls = <<>> /\ count.auctionOk < MaxServerAuctions
       /\ \E n \in SlotCounts : CreateAuction(ListingsRequest(n))
    \/ \E i \in DOMAIN calls : ServerAuctionOk(i, 0) /\ PlainDraws(calls'[i])
    \/ \E i \in DOMAIN calls : AuctionReturn(i)
    \/ /\ count.reported < MaxPoolLines
       /\ ~hasEvents(pendingEvents) /\ calls = <<>>
       /\ \E id \in PoolPurchases :
             ReportEvent([EmptyEvents EXCEPT
                 !.purchases = <<Purchase(count.reported + 1, <<Item(id, 1)>>, SomeBid)>>])
    \/ /\ calls = <<>>
       /\ FlushStart(TRUE)
    \/ \E i \in DOMAIN calls : ServerEventsOk(i, 0)
    \/ \E i \in DOMAIN calls : FlushReturn(i)

SpecPool == Init /\ [][NextPool]_vars

(***************************************************************************)
(* SpecFaults: one client with error simulation, one call at a time:       *)
(* auctions of 3 slots and of the slot counts 0 and -1, one purchase       *)
(* reported and flushed (again after a failure), and the fetch timeout of  *)
(* a client configured with the default or with a short timeout.           *)
(***************************************************************************)
InvalidSlots == {-1, 0}

NextFaults ==
    \/ /\ ~simulateErrors
       /\ setErrorSimulation(TRUE, 30)
    \/ /\ calls = <<>>
       /\ count.auctionOk + count.auctionErr < MaxAuctionFailures
       /\ \E n \in InvalidSlots \cup {3} : CreateAuction(ListingsRequest(n))
    \/ \E i \in DOMAIN calls, d \in ErrorDraws : ServerAuctionOk(i, d)
    \/ \E i \in DOMAIN calls, d \in ErrorDraws : ServerAuctionError(i, d)
    \/ \E i \in DOMAIN calls : AuctionReturn(i)
    \/ \E i \in DOMAIN calls : AuctionThrow(i)
    \/ /\ count.reported < 1
       /\ ReportEvent([EmptyEvents EXCEPT
              !.purchases = <<Purchase(1, <<Item("prod-002", 1)>>, SomeBid)>>])
    \/ /\ calls = <<>> /\ count.flushes < MaxFlushes
       /\ \E fromTimer \in BOOLEAN : FlushStart(fromTimer)
    \/ \E i \in DOMAIN calls, d \in ErrorDraws : ServerEventsOk(i, d)
    \/ \E i \in DOMAIN calls, d \in ErrorDraws : ServerEventsError(i, d)
    \/ \E i \in DOMAIN calls : FlushReturn(i)
    \/ \E i \in DOMAIN calls : FlushThrow(i)
    \/ \E i \in DOMAIN calls, timeout \in ConfigTimeouts, latency \in Latencies :
          TimeoutAbort(i, timeout, latency)

SpecFaults == Init /\ [][NextFaults]_vars

(***************************************************************************)
(* SpecIngest: the events endpoint behind one client, with error           *)
(* simulation, one call at a time: batches of impressions, clicks and      *)
(* purchases, with and without event id, with and without bid id, of one   *)
(* or several item lines, of one or two units, of an unknown product; an   *)
(* auction of one slot; the purchase history cleared.                      *)
(***************************************************************************)
\* the event sets reported, the ids given from n + 1 on
IngestInputs(n) ==
    { [EmptyEvents EXCEPT !.impressions = <<Impression(n + 1, SomeBid)>>],
      [EmptyEvents EXCEPT !.clicks = <<Click(NoId, SomeBid)>>],
      [EmptyEvents EXCEPT
          !.purchases = <<Purchase(n + 1, <<Item("prod-003", 2)>>, NoBid)>>],
      [EmptyEvents EXCEPT
          !.purchases = <<Purchase(NoId, << Item("prod-010", 2),
                                            Item(UnknownId, 1),
                                            Item("prod-012", 1) >>, SomeBid)>>] }

NextIngest ==
    \/ /\ ~simulateErrors
       /\ setErrorSimulation(TRUE, 30)
    \/ \E events \in IngestInputs(count.reported) :
          /\ count.reported < MaxEvents
          /\ ReportEvent(events)
    \/ /\ calls = <<>> /\ count.flushes < MaxFlushes
       /\ FlushStart(TRUE)
    \/ \E i \in DOMAIN calls, d \in ErrorDraws : ServeEvents(i, d)
    \/ \E i \in DOMAIN calls : FlushReturn(i)
    \/ \E i \in DOMAIN calls : FlushThrow(i)
    \/ /\ calls = <<>>
       /\ count.auctionOk + count.auctionErr < MaxServerAuctions
       /\ CreateAuction(ListingsRequest(1))
    \/ \E i \in DOMAIN calls, d \in ErrorDraws : ServerAuctionOk(i, d)
    \/ \E i \in DOMAIN calls, d \in ErrorDraws : ServerAuctionError(i, d)
    \/ \E i \in DOMAIN calls : AuctionReturn(i)
    \/ \E i \in DOMAIN calls : AuctionThrow(i)
    \/ /\ purchaseHistory # EmptyHistory
       /\ clearPurchaseHistory

SpecIngest == Init /\ [][NextIngest]_vars

(***************************************************************************)
(* SpecAnalytics: the context provider from before initialize: one auction *)
(* of three slots, then purchases of one or two units of prod-006 (a       *)
(* winner, bought with the bid id of its placement or without) and of      *)
(* prod-003 (never sponsored by default, bought without bid id), and       *)
(* clearAnalytics.  The timer does not flush in these behaviours.          *)
(***************************************************************************)
InitAnalytics == InitWith(1, 0)

\* product.resolvedBidId of the product as the first auction placed it
PlacementBids(productId) ==
    {scenario.first[j].winners[k].resolvedBidId :
        <<j, k>> \in {<<j, k>> \in (DOMAIN scenario.first) \X (1..Len(mockProducts)) :
                        /\ k \in DOMAIN scenario.first[j].winners
                        /\ scenario.first[j].winners[k].id = productId}}

Quantities == {1, 2}

NextAnalytics ==
    \/ /\ clientInstance = 0
       /\ initializeTopsortClient
    \/ /\ calls = <<>> /\ scenario.step = 1
       /\ outcome.op # "runAuction"
       /\ runAuction(ListingsRequest(3))
    \/ \E i \in DOMAIN calls : ServerAuctionOk(i, 0)
    \/ \E i \in DOMAIN calls : runAuctionReturn(i)
    \/ \E productId \in {"prod-003", "prod-006"}, quantity \in Quantities :
          \E bid \in {NoBid} \cup PlacementBids(productId) :
             /\ IF clientInstance = 0 THEN outcome.op # "trackPurchase"
                                      ELSE count.reported < MaxPurchases
             /\ trackPurchase(productId, quantity, PriceOf(productId), bid)
    \/ /\ analytics # initialAnalytics
       /\ clearAnalytics

SpecAnalytics == InitAnalytics /\ [][NextAnalytics]_vars

(***************************************************************************)
(* SpecDelivery: the queue of a client that is never destroyed, under      *)
(* fairness.  The timer keeps ticking (its callback flushes whenever       *)
(* events wait), every request is answered, every continuation runs, and   *)
(* the transport fails at most MaxFlushFailures flushes.  A tick may start *)
(* a flush while an earlier one is still in flight.                        *)
(***************************************************************************)
\* the flushes failed so far, recorded or still to be continued
FailedFlushes == Len(status.errors) + Answered(EVENTS, "error")

\* the interval callback of startEventBatching
TimerFlush == FlushStart(TRUE)

\* the mock server answers an events request
AnswerFlush ==
    \E i \in DOMAIN calls, d \in ErrorDraws :
        \/ /\ FailedFlushes < MaxFlushFailures
           /\ ServerEventsError(i, d)
        \/ ServerEventsOk(i, d)

\* flushEvents resumes after its await
ContinueFlush ==
    \E i \in DOMAIN calls : FlushReturn(i) \/ FlushThrow(i)

NextDelivery ==
    \/ /\ ~simulateErrors
       /\ setErrorSimulation(TRUE, 30)
    \/ \E events \in ReportInputs(count.reported) :
          /\ count.reported + eventCount(events) <= MaxEvents
          /\ ReportEvent(events)
    \/ TimerFlush
    \/ AnswerFlush
    \/ ContinueFlush

SpecDelivery ==
    /\ Init /\ [][NextDelivery]_vars
    /\ WF_vars(TimerFlush)
    /\ WF_vars(AnswerFlush)
    /\ WF_vars(ContinueFlush)

(***************************************************************************)
(* SpecScenario: the end-to-end scenario without failures.  A caller runs  *)
(* a 3-slot auction (step 1), reports an impression of the first winner    *)
(* and has it flushed (step 2), reports a purchase of the first winner and *)
(* has it flushed (step 3), and runs a second 3-slot auction (step 4);     *)
(* step 5 is the end.  A flush is the caller's or the timer's.             *)
(***************************************************************************)
InitScenario == InitAt(1)

FirstWinner == scenario.first[1].winners[1]

NextScenario ==
    \/ /\ scenario.step \in {1, 4} /\ calls = <<>>
       /\ CreateAuction(ListingsRequest(3))
    \/ \E i \in DOMAIN calls : ServerAuctionOk(i, 0)
    \/ \E i \in DOMAIN calls : AuctionReturn(i)
    \/ /\ scenario.step = 2 /\ count.reported = 0
       /\ ReportEvent([EmptyEvents EXCEPT
              !.impressions = <<Impression(1, FirstWinner.resolvedBidId)>>])
    \/ /\ scenario.step = 3 /\ count.reported = 1
       /\ ReportEvent([EmptyEvents EXCEPT
              !.purchases = <<Purchase(2, <<Item(FirstWinner.id, 1)>>,
                                       FirstWinner.resolvedBidId)>>])
    \/ \E fromTimer \in BOOLEAN : FlushStart(fromTimer)
    \/ \E i \in DOMAIN calls : ServerEventsOk(i, 0)
    \/ \E i \in DOMAIN calls : FlushReturn(i)
    \/ Tick

SpecScenario == InitScenario /\ [][NextScenario]_vars

(***************************************************************************)
(* Health and status claims.                                               *)
(***************************************************************************)
\* the health the thresholds alone give a rate
HealthOfRate(rate) ==
    IF rate < DownBelow * RateScale THEN "down"
    ELSE IF rate < DegradedBelow * RateScale THEN "degraded"
    ELSE "healthy"

\* the last completed client operation recorded an error
ErrorJustRecorded == outcome.result \in {"thrown", "swallowed"}

\* C7: on a fresh client, once 10 createAuction calls have failed and none has
\* succeeded, auctionSuccessRate is below 50 and apiHealth is 'down'.
C7_TenFailuresDown ==
    (count.auctionErr = 10 /\ count.auctionOk = 0)
        => /\ status.auctionSuccessRate < 50 * RateScale
           /\ status.apiHealth = "down"

C7_Witness ==
    /\ count.auctionErr = 10 /\ count.auctionOk = 0
    /\ outcome = [op |-> "createAuction", result |-> "thrown"]
    /\ status.apiHealth = "down"

\* C8: right after a recorded error (a failed auction or a failed flush) apiHealth
\* is 'down' for a rate below 50, 'degraded' for a rate in [50, 80) and 'healthy'
\* for a rate of 80 or more, whatever it was before.
C8_HealthDerivedAfterError ==
    ErrorJustRecorded => status.apiHealth = HealthOfRate(status.auctionSuccessRate)

\* C9: right after a successful createAuction that leaves the rate at 80 or
\* above, apiHealth is 'healthy' (health recovers with the rate).
C9_HealthRecovers ==
    (/\ outcome = [op |-> "createAuction", result |-> "returned"]
     /\ status.auctionSuccessRate >= DegradedBelow * RateScale)
        => status.apiHealth = "healthy"

\* C10: a value returned by getStatus never changes afterwards: every field,
\* the errors list included, stays as it was at the call.
C10_SnapshotImmutable ==
    \A k \in DOMAIN snapshots : snapshots[k].value = snapshots[k].atCall


(***************************************************************************)
(* Queue claims.                                                           *)
(***************************************************************************)
\* every event owed to the last successful flush is in its payload exactly once
OwedDelivered ==
    \A e \in lastFlush.owed : Occurrences(lastFlush.payload, e) = 1

\* C1 as stated: after a failed flush, the events of its batch and the events
\* reported while it was in flight are each exactly once in the payload of the
\* next flush that succeeds.
C1_NextSuccessCarriesOwed == OwedDelivered

\* C1, amended: the same, for flush attempts that do not overlap (from the
\* failing attempt's queue swap to that next success no two flushes are in
\* flight together).
C1_SerialNextSuccessCarriesOwed == lastFlush.serial => OwedDelivered

\* a failed flush of event 1, event 2 reported meanwhile, and the next flush,
\* alone in flight, succeeded with both
C1_Witness ==
    /\ lastFlush.serial
    /\ lastFlush.owed = {1, 2}
    /\ lastFlush.payload = <<2, 1>>
    /\ status.errors # <<>>


(***************************************************************************)
(* Auction claims.                                                         *)
(***************************************************************************)
\* the auction calls the server has answered, not yet continued by the client
AnsweredAuctions ==
    {i \in DOMAIN calls : calls[i].endpoint = AUCTIONS /\ calls[i].phase = "ok"}

WinnerIds(result) == [k \in DOMAIN result.winners |-> result.winners[k].id]

\* the bid ids of the answered calls cs, in order
RECURSIVE CallBids(_)
CallBids(cs) ==
    IF cs = <<>> THEN <<>> ELSE BidsOf(Head(cs).results) \o CallBids(Tail(cs))

\* every bid id issued to the caller of the scenario and to the calls in flight
IssuedBids ==
    BidsOf(scenario.first) \o BidsOf(scenario.second) \o CallBids(calls)

\* C2: every winner's resolvedBidId differs from every other winner's
\* resolvedBidId issued so far, within one response and across the responses of
\* different createAuction calls.
C2_BidIdsFresh == NoDuplicates(IssuedBids)

\* C3: a successful auction answers a slot spec of N slots, 1 <= N <= 12, with
\* exactly N winners, ranked 1..N, whatever the purchase history.  (That their
\* bid ids are pairwise distinct is the statement of C2.)
C3_ExactlyNWinners ==
    \A i \in AnsweredAuctions : \A j \in DOMAIN calls[i].auctions :
        LET N == calls[i].auctions[j].slots
            winners == calls[i].results[j].winners
        IN  (1 <= N /\ N <= Len(mockProducts))
                => /\ Len(winners) = N
                   /\ \A k \in DOMAIN winners : winners[k].rank = k

\* C4: a slot spec of more slots than the catalog has products is answered, with
\* at most as many winners as the catalog has products, each a catalog product,
\* and no product id twice, whatever the purchase history.
C4_OversizedSlotsNoPadding ==
    \A i \in AnsweredAuctions : \A j \in DOMAIN calls[i].auctions :
        calls[i].auctions[j].slots > Len(mockProducts)
            => /\ Len(calls[i].results[j].winners) <= Len(mockProducts)
               /\ Range(WinnerIds(calls[i].results[j])) \subseteq CatalogIds
               /\ NoDuplicates(WinnerIds(calls[i].results[j]))

\* 14 slots asked after one catalog product was bought: the 11 others win
C4_Witness ==
    \E i \in AnsweredAuctions :
        /\ calls[i].auctions[1].slots = Len(mockProducts) + 2
        /\ Cardinality(calls[i].history.productIds) = 1
        /\ Len(calls[i].results[1].winners) = Len(mockProducts) - 1

\* the categories with a purchase in history
PurchasedCategories(history) ==
    {history.categories[k].category : k \in DOMAIN history.categories}

\* C5: an auction answered after the purchase of catalog product X was ingested
\* (and before the history is cleared) has no winner X; and every sponsored
\* product not yet bought of a category with purchases is ranked before any
\* winner of a category without purchases.
C5_PersonalizationMonotone ==
    \A i \in AnsweredAuctions : \A j \in DOMAIN calls[i].results :
        LET ids == WinnerIds(calls[i].results[j])
            bought == calls[i].ingested
            purchased == PurchasedCategories(calls[i].history)
        IN  /\ Range(ids) \cap bought = {}
            /\ \A k \in DOMAIN ids :
                  CategoryOf(ids[k]) \notin purchased
                      => \A C \in purchased :
                           \A x \in Range(SPONSORED_BY_CATEGORY[C]) \ bought :
                               \E m \in 1..(k - 1) : ids[m] = x

\* prod-010 (home) was bought: the other home product is first, a product of a
\* category without purchases follows
C5_Witness ==
    \E i \in AnsweredAuctions :
        /\ calls[i].ingested = {"prod-010"}
        /\ Len(calls[i].results[1].winners) >= 2
        /\ calls[i].results[1].winners[1].id = "prod-012"
        /\ CategoryOf(calls[i].results[1].winners[2].id) # "home"

(***************************************************************************)
(* The end-to-end scenario.                                                *)
(***************************************************************************)
\* the first auction: 3 winners of the default candidates, ranked 1..3
ScenarioFirstAuction ==
    scenario.step >= 2
        => LET winners == scenario.first[1].winners
           IN  /\ Len(scenario.first) = 1 /\ Len(winners) = 3
               /\ \A k \in DOMAIN winners :
                     /\ Includes(DEFAULT_SPONSORED_IDS, winners[k].id)
                     /\ winners[k].rank = k

\* the bid ids of the first auction's winners are distinct
ScenarioBidIdsDistinct ==
    scenario.step >= 2 => NoDuplicates(BidsOf(scenario.first))

\* the impression's flush raises eventsSentToday from 0 to 1
ScenarioImpressionCounted ==
    /\ scenario.step \in {1, 2} => status.eventsSentToday = 0
    /\ scenario.step = 3 => status.eventsSentToday = 1

\* after the purchase's flush the first winner is in the purchased-id set
ScenarioPurchaseIngested ==
    scenario.step >= 4 => FirstWinner.id \in purchaseHistory.productIds

\* the second auction does not return the first winner
ScenarioSecondAuction ==
    scenario.step = 5
        => /\ Len(scenario.second) = 1
           /\ ~Includes(WinnerIds(scenario.second[1]), FirstWinner.id)

\* the scenario apart from the bid ids
ScenarioButBidIds ==
    /\ ScenarioFirstAuction
    /\ ScenarioImpressionCounted
    /\ ScenarioPurchaseIngested
    /\ ScenarioSecondAuction

\* C6: on a fresh client and an empty purchase history, a 3-slot auction
\* returns 3 default-candidate winners ranked 1..3 with distinct bid ids;
\* reporting and flushing one impression raises eventsSentToday by exactly 1;
\* reporting and flushing a purchase of the first winner puts its id in the
\* purchased-id set; the next 3-slot auction does not return that id.
C6_EndToEndScenario == ScenarioButBidIds /\ ScenarioBidIdsDistinct


C12_FlushBookkeeping ==
    [][ \A i \in DOMAIN calls :
          (IsEventsCall(calls[i]) /\ calls' = RemoveAt(calls, i))
              => /\ status'.auctionSuccessRate = status.auctionSuccessRate
                 /\ calls[i].phase = "ok"
                       => /\ status'.lastEventSent = clock
                          /\ status'.eventsSentToday
                                 = status.eventsSentToday
                                   + Len(calls[i].events.impressions)
                                   + Len(calls[i].events.clicks)
                                   + Len(calls[i].events.purchases)
                 /\ calls[i].phase = "error"
                       => /\ status'.lastEventSent = status.lastEventSent
                          /\ status'.eventsSentToday = status.eventsSentToday
      ]_vars

\* a flush of a batch of two events succeeded after an earlier flush had failed
C12_Witness ==
    /\ outcome.result = "returned"
    /\ Len(lastFlush.payload) = 2
    /\ status.eventsSentToday = 2
    /\ status.lastEventSent # Null
    /\ status.errors # <<>>

IsPrefix(s, t) == Len(s) <= Len(t) /\ SubSeq(t, 1, Len(s)) = s

\* C13: reportEvent appends the supplied events at the tail of the pending
\* lists, sends nothing and changes no status field (and nothing on the server).
C13_ReportOnlyEnqueues ==
    [][ count'.reported > count.reported
          => /\ IsPrefix(pendingEvents.impressions, pendingEvents'.impressions)
             /\ IsPrefix(pendingEvents.clicks, pendingEvents'.clicks)
             /\ IsPrefix(pendingEvents.purchases, pendingEvents'.purchases)
             /\ Len(EventIds(pendingEvents'))
                    = Len(EventIds(pendingEvents))
                      + count'.reported - count.reported
             /\ \A e \in Range(EventIds(pendingEvents'))
                           \ Range(EventIds(pendingEvents)) : e > count.reported
             /\ status' = status
             /\ Len(calls') = Len(calls)
             /\ \A i \in DOMAIN calls :
                   /\ calls'[i].events = calls[i].events
                   /\ calls'[i].phase = calls[i].phase
             /\ delivered' = delivered
             /\ serverVars' = serverVars ]_vars

\* two impressions reported one after the other wait in the queue, nothing sent
C13_Witness ==
    /\ EventIds(pendingEvents) = <<1, 2>>
    /\ Len(pendingEvents.impressions) = 2
    /\ calls = <<>>
    /\ count.flushes = 0
    /\ status = InitialStatus


(***************************************************************************)
(* Teardown claims.  flushInterval is FALSE exactly after destroy().       *)
(***************************************************************************)
\* C14: destroy() drops the events still pending, and once it has been called
\* no further event batch is sent, whatever is reported, flushed or completed
\* afterwards.
C14_TeardownStopsSends ==
    [][ /\ (flushInterval /\ ~flushInterval') => ~hasEvents(pendingEvents')
        /\ ~flushInterval => Len(calls') <= Len(calls) ]_vars

\* C15: once destroy() has run, no timer-initiated flush starts, even if events
\* are reported afterwards.
C15_NoTimerFlushAfterDestroy ==
    [][ (~flushInterval /\ Len(calls') > Len(calls))
          => ~calls'[Len(calls')].fromTimer ]_vars

\* after destroy() events wait in the queue and no call is in flight, where a
\* running timer would have started a flush
C15_Witness ==
    /\ ~flushInterval
    /\ hasEvents(pendingEvents)
    /\ calls = <<>>
    /\ count.flushes >= 1


(***************************************************************************)
(* Failure claims.                                                         *)
(***************************************************************************)
\* C17: when the server fails a call by error simulation, the purchase history
\* is unchanged by that call and the call gets no result: no bid id is issued,
\* no event of the batch is ingested or acknowledged.
C17_InjectedFailuresAtomic ==
    [][ \A i \in DOMAIN calls :
          (/\ Len(calls') = Len(calls)
           /\ calls[i].phase = "sent" /\ calls'[i].phase = "error")
              => /\ purchaseHistory' = purchaseHistory
                 /\ calls'[i].results = <<>> ]_vars

\* the server failed a batch holding a purchase, after it had failed an auction
C17_Witness ==
    /\ count.auctionErr >= 1
    /\ \E i \in DOMAIN calls :
          /\ IsEventsCall(calls[i]) /\ calls[i].phase = "error"
          /\ calls[i].events.purchases # <<>>
    /\ purchaseHistory = EmptyHistory

\* the messages of the server's own (application-level) errors
ServerMessages ==
    {"Auction service temporarily unavailable",
     "Events service temporarily unavailable"}

\* C18: a call whose fetch timeout has fired fails: its caller gets an error,
\* the recorded error is not one of the server's application errors, and a
\* flush puts its batch back in the queue as on an explicit failure.
C18_TimeoutFailsCall ==
    [][ \A i \in DOMAIN calls :
          (calls[i].aborted /\ calls' = RemoveAt(calls, i))
              => /\ outcome'.result \in {"thrown", "swallowed"}
                 /\ Len(status'.errors) >= 1
                 /\ status'.errors[1].message \notin ServerMessages
                 /\ IsEventsCall(calls[i])
                       => pendingEvents' = reportEvent(pendingEvents,
                                                       calls[i].events) ]_vars

\* C19: a createAuction request with a slot count below 1 is never answered
\* with a normal result.
C19_InvalidSlotsRejected ==
    \A i \in DOMAIN calls :
        (/\ calls[i].endpoint = AUCTIONS
         /\ \E j \in DOMAIN calls[i].auctions : calls[i].auctions[j].slots < 1)
            => calls[i].phase # "ok"


(***************************************************************************)
(* Singleton claims.                                                       *)
(***************************************************************************)
\* the clients, current and replaced, whose flush timer is set
RunningTimers ==
    (IF flushInterval THEN 1 ELSE 0)
    + Cardinality({k \in DOMAIN retired : retired[k]})

\* C16: after any sequence of initializeTopsortClient calls at most one client
\* has a running flush timer, and getTopsortClient returns the client created
\* last.
C16_SingletonReplacement ==
    /\ RunningTimers <= 1
    /\ (outcome.op = "getTopsortClient" /\ outcome.result = "returned")
          => outcome.instance = Len(retired) + 1

\* the third client, its timer running, returned by getTopsortClient
C16_Witness ==
    /\ Len(retired) = 2
    /\ flushInterval
    /\ outcome = [op |-> "getTopsortClient", result |-> "returned", instance |-> 3]

\* the core operations of the claim
CoreOps ==
    {"getTopsortClient", "runAuction", "trackImpression", "trackClick",
     "trackPurchase"}

\* C20: before initialize, a core operation fails with a not-initialized error
\* and changes nothing: no queue, no status, no request.
C20_NotInitializedFails ==
    clientInstance = 0
        => /\ outcome.op \in CoreOps => outcome.result = "thrown"
           /\ pendingEvents = EmptyEvents
           /\ status = InitialStatus
           /\ calls = <<>>


(***************************************************************************)
(* Ingestion claims.                                                       *)
(***************************************************************************)
\* the events calls the server has answered, not yet continued by the client
AnsweredFlushes ==
    {i \in DOMAIN calls : IsEventsCall(calls[i]) /\ calls[i].phase = "ok"}

\* ack is the acknowledgement of event: 'received', with the event's id if it
\* has one
Acknowledges(ack, event) ==
    /\ ack.status = "received"
    /\ event.id # NoId => ack.id = event.id

\* C21: the ack list of a successfully ingested batch has one ack per event, the
\* acks of the impressions first, then those of the clicks, then those of the
\* purchases, each group in input order; every ack has status 'received' and
\* the id of its event when the event has one.
C21_AcksInOrder ==
    \A i \in AnsweredFlushes :
        LET body == calls[i].events
            acks == calls[i].results
            I == Len(body.impressions)
            C == Len(body.clicks)
        IN  /\ Len(acks) = I + C + Len(body.purchases)
            /\ \A k \in DOMAIN body.impressions :
                  Acknowledges(acks[k], body.impressions[k])
            /\ \A k \in DOMAIN body.clicks :
                  Acknowledges(acks[I + k], body.clicks[k])
            /\ \A k \in DOMAIN body.purchases :
                  Acknowledges(acks[I + C + k], body.purchases[k])

\* a purchase without id was reported first, an impression with id 2 after it:
\* the batch is answered with the ack of the impression, then a generated id
C21_Witness ==
    \E i \in AnsweredFlushes :
        /\ Len(calls[i].events.purchases) = 1
        /\ calls[i].events.purchases[1].id = NoId
        /\ Len(calls[i].events.impressions) = 1
        /\ calls[i].results[1].id = 2
        /\ calls[i].results[2].id < 0

\* the item lines of catalog products of category c in a list of purchases
CatalogLines(purchases, c) ==
    LET lines == ItemLines(purchases)
    IN  {k \in DOMAIN lines :
            /\ lines[k].productId \in CatalogIds
            /\ CategoryOf(lines[k].productId) = c}

\* C22: the successful ingestion of a batch raises the count of every category
\* by the number of the batch's item lines of catalog products of that category
\* (1 per line, whatever its quantity) and adds their ids to the purchased-id
\* set; lines of unknown products change nothing and fail nothing (the server
\* fails a batch by error simulation only); the bid id plays no part.
C22_PurchaseIngestion ==
    [][ \A i \in DOMAIN calls :
          (/\ Len(calls') = Len(calls)
           /\ IsEventsCall(calls[i])
           /\ calls[i].phase = "sent" /\ calls'[i].phase # "sent")
              => /\ calls'[i].phase = "error" => simulateErrors
                 /\ calls'[i].phase = "ok"
                       => /\ \A c \in Categories :
                                CategoryCount(purchaseHistory'.categories, c)
                                    = CategoryCount(purchaseHistory.categories, c)
                                      + Cardinality(CatalogLines(
                                            calls[i].events.purchases, c))
                          /\ purchaseHistory'.productIds
                                 = purchaseHistory.productIds
                                   \cup (LineIds(calls[i].events.purchases)
                                         \cap CatalogIds) ]_vars

\* a purchase with a bid id of two units of prod-010, a line of an unknown
\* product and one unit of prod-012 was ingested after a purchase without bid
\* id of two units of prod-003
C22_Witness ==
    /\ count.itemLines = 4
    /\ purchaseHistory.productIds = {"prod-003", "prod-010", "prod-012"}
    /\ CategoryCount(purchaseHistory.categories, "home") = 2
    /\ CategoryCount(purchaseHistory.categories, "food") = 1

\* C23: a step that changes the purchase history either is
\* clearPurchaseHistory, or lowers no category count, removes no purchased id
\* and is the successful ingestion of a batch that holds purchases: auctions,
\* batches without purchases and failed calls leave the history as it is.
C23_HistoryMonotone ==
    [][ purchaseHistory' # purchaseHistory
          => \/ purchaseHistory' = EmptyHistory /\ clientVars' = clientVars
             \/ /\ \A c \in Categories :
                       CategoryCount(purchaseHistory'.categories, c)
                           >= CategoryCount(purchaseHistory.categories, c)
                /\ purchaseHistory.productIds \subseteq purchaseHistory'.productIds
                /\ \E i \in DOMAIN calls :
                      /\ IsEventsCall(calls[i]) /\ calls[i].phase = "sent"
                      /\ calls[i].events.purchases # <<>>
                      /\ calls' = [calls EXCEPT ![i] = calls'[i]]
                      /\ calls'[i].phase = "ok" ]_vars

\* prod-003 is in the history after an auction was answered, a call failed and
\* a batch of two events, a purchase among them, was delivered
C23_Witness ==
    /\ purchaseHistory.productIds = {"prod-003"}
    /\ count.auctionOk = 1
    /\ status.errors # <<>>
    /\ status.eventsSentToday = 2


(***************************************************************************)
(* Attribution claims.                                                     *)
(***************************************************************************)
\* the bid ids the first auction issued to its caller
AuctionBids == Range(BidsOf(scenario.first))

\* roas = adSpend > 0 ? attributedRevenue / adSpend : 0, the quotient kept as
\* a fraction of a sum in doubles and a sum in cents
ROAS(a) ==
    IF a.adSpend > 0 THEN [num |-> a.attributedRevenue, den |-> a.adSpend]
    ELSE [num |-> Double(0, 0), den |-> 1]

\* a tracked purchase is counted once, as attributed if it came with a bid id
\* an auction had issued, as organic if it came without bid id
PurchaseClassified ==
    analytics'.purchases = analytics.purchases + 1
        => LET purchase == pendingEvents'.purchases[Len(pendingEvents'.purchases)]
               attributed == analytics'.attributedPurchases
                             - analytics.attributedPurchases
               organic == analytics'.organicPurchases - analytics.organicPurchases
           IN  /\ purchase.resolvedBidId \in AuctionBids
                     => attributed = 1 /\ organic = 0
               /\ purchase.resolvedBidId = NoBid
                     => attributed = 0 /\ organic = 1

PurchasesSplit ==
    analytics.attributedPurchases + analytics.organicPurchases = analytics.purchases

\* attributedRevenue + organicRevenue, as the dashboard computes it, is revenue
RevenueSplit ==
    DoubleAdd(analytics.attributedRevenue, analytics.organicRevenue)
        = analytics.revenue

RoasDefined ==
    /\ analytics.adSpend >= 0
    /\ analytics.adSpend = 0 => ROAS(analytics) = [num |-> Double(0, 0), den |-> 1]
    /\ analytics.adSpend # 0
          => ROAS(analytics) = [num |-> analytics.attributedRevenue,
                                den |-> analytics.adSpend]

\* the claim apart from the sum of the revenues
AttributionButRevenue ==
    [](PurchasesSplit /\ RoasDefined) /\ [][PurchaseClassified]_vars

\* C24: a purchase tracked with a bid id issued by an earlier auction is counted
\* as attributed and one without bid id as organic; attributedPurchases +
\* organicPurchases = purchases and attributedRevenue + organicRevenue = revenue
\* in every state; ROAS is attributedRevenue / adSpend, and 0 when adSpend is 0.
C24_Attribution ==
    [](PurchasesSplit /\ RevenueSplit /\ RoasDefined) /\ [][PurchaseClassified]_vars


(***************************************************************************)
(* Error log claims.                                                       *)
(***************************************************************************)
\* the client's error log holds at most 10 records
ErrorLogBounded == Len(status.errors) <= 10

\* an error is recorded at the head of the log, the oldest beyond 10 dropped
ErrorLogHeadInsert ==
    (status'.errors # status.errors /\ status'.errors # <<>>)
        => /\ Tail(status'.errors) = Slice(status.errors, 9)
           /\ status'.errors[1].timestamp = clock

\* the claim for the client's own log
ErrorLogKept == []ErrorLogBounded /\ [][ErrorLogHeadInsert]_vars

\* C25: the client's error log holds at most 10 records, most recent first (a
\* new error goes to the head, the oldest beyond 10 is dropped), and the errors
\* list of every status value getStatus has returned has at most 10 records.
C25_ErrorLogBound ==
    /\ [](/\ ErrorLogBounded
          /\ \A k \in DOMAIN snapshots : Len(snapshots[k].value.errors) <= 10)
    /\ [][ErrorLogHeadInsert]_vars

\* C26: clearErrors empties the error log and changes nothing else:
\* auctionSuccessRate, apiHealth, eventsSentToday, lastAuctionCall,
\* lastEventSent, the pending queue, the calls in flight and the timer stay.
C26_ClearErrorsOnlyLog ==
    [][ (status.errors # <<>> /\ status'.errors = <<>>)
          => /\ status' = [status EXCEPT !.errors = <<>>]
             /\ pendingEvents' = pendingEvents
             /\ calls' = calls
             /\ flushInterval' = flushInterval
             /\ serverVars' = serverVars ]_vars

\* the log is empty although three auctions failed: it was cleared, while the
\* client was degraded, had an auction answered and had an event waiting
C26_Witness ==
    /\ status.errors = <<>>
    /\ count.auctionErr = 3
    /\ status.apiHealth = "degraded"
    /\ status.auctionSuccessRate < DegradedBelow * RateScale
    /\ status.lastAuctionCall # Null
    /\ hasEvents(pendingEvents)

\* C27: the failure of a flush the timer started reaches no caller, and the
\* status getStatus returns afterwards has a new head entry of endpoint
\* '/events' in its errors.
C27_TimerFlushFailureSwallowed ==
    [][ \A i \in DOMAIN calls :
          (/\ IsEventsCall(calls[i]) /\ calls[i].fromTimer
           /\ calls[i].phase = "error"
           /\ calls' = RemoveAt(calls, i))
              => /\ outcome'.result # "thrown"
                 /\ Snapshot(status').value.errors[1]
                        = ApiError(EVENTS, calls[i].message, clock)
                 /\ Tail(Snapshot(status').value.errors)
                        = Slice(status.errors, 9) ]_vars

\* a timer flush failed after two auctions had: getStatus, called afterwards,
\* returned a list of three errors headed by the one of '/events'
C27_Witness ==
    /\ outcome = [op |-> "timer", result |-> "swallowed"]
    /\ \E k \in DOMAIN snapshots :
          /\ Len(snapshots[k].atCall.errors) = 3
          /\ snapshots[k].atCall.errors[1].endpoint = EVENTS
          /\ snapshots[k].atCall.errors[2].endpoint = AUCTIONS


(***************************************************************************)
(* Response shape and default mode.                                        *)
(***************************************************************************)
\* C28: a successful auction response has one result per slot spec of the
\* request, in request order, each with the resultType of its spec; in every
\* result the ranks are 1..k in list order, every winner has type 'product',
\* and no product id occurs twice.
C28_ResponseShape ==
    \A i \in AnsweredAuctions :
        /\ Len(calls[i].results) = Len(calls[i].auctions)
        /\ \A j \in DOMAIN calls[i].results :
              LET winners == calls[i].results[j].winners
              IN  /\ calls[i].results[j].resultType = calls[i].auctions[j].type
                  /\ \A k \in DOMAIN winners :
                        winners[k].rank = k /\ winners[k].type = "product"
                  /\ NoDuplicates(WinnerIds(calls[i].results[j]))

\* a request of a listings spec of 3 slots and a banners spec of 1 slot,
\* answered after a purchase: 3 winners, then 1
C28_Witness ==
    \E i \in AnsweredAuctions :
        /\ Len(calls[i].auctions) = 2
        /\ calls[i].history # EmptyHistory
        /\ calls[i].results[1].resultType = "listings"
        /\ Len(calls[i].results[1].winners) = 3
        /\ calls[i].results[2].resultType = "banners"
        /\ Len(calls[i].results[2].winners) = 1

\* the place of a catalog product in the catalog
CatalogIndex(id) == CHOOSE i \in DOMAIN mockProducts : mockProducts[i].id = id

\* with an empty history the winners of a slot spec are default candidates,
\* in catalog order
DefaultCandidatesOnly(i, j) ==
    LET ids == WinnerIds(calls[i].results[j])
    IN  /\ Range(ids) \subseteq Range(DEFAULT_SPONSORED_IDS)
        /\ \A k, m \in DOMAIN ids :
              k < m => CatalogIndex(ids[k]) < CatalogIndex(ids[m])

\* default mode, the candidates truncated to the slot count and never padded
DefaultModeTruncated ==
    \A i \in AnsweredAuctions : \A j \in DOMAIN calls[i].results :
        (calls[i].history = EmptyHistory /\ calls[i].auctions[j].slots >= 0)
            => /\ DefaultCandidatesOnly(i, j)
               /\ Len(calls[i].results[j].winners)
                      = Min(calls[i].auctions[j].slots, Len(DEFAULT_SPONSORED_IDS))

\* C30: while the purchase history is empty, the winners of a slot spec are
\* default candidates only, in catalog order, as many as the slots requested
\* (the default candidates truncated or padded to the slot count).
C30_DefaultMode ==
    \A i \in AnsweredAuctions : \A j \in DOMAIN calls[i].results :
        (calls[i].history = EmptyHistory /\ calls[i].auctions[j].slots >= 0)
            => /\ DefaultCandidatesOnly(i, j)
               /\ Len(calls[i].results[j].winners) = calls[i].auctions[j].slots


(***************************************************************************)
(* Eventual delivery.                                                      *)
(***************************************************************************)
\* C29: for a client that is never destroyed, if the timer keeps ticking and
\* the transport eventually succeeds, every event passed to reportEvent is
\* eventually in a flush that succeeded, and eventsSentToday counts the events
\* of the flushes that succeeded.
C29_EventualDelivery ==
    /\ [](status.eventsSentToday = BagCardinality(delivered))
    /\ \A e \in 1..MaxEvents : (count.reported >= e) ~> BagIn(e, delivered)

\* both events are delivered and counted after two flushes had failed
C29_Witness ==
    /\ Len(status.errors) = 2
    /\ BagIn(1, delivered) /\ BagIn(2, delivered)
    /\ status.eventsSentToday = 2
    /\ ~hasEvents(pendingEvents) /\ calls = <<>>

(***************************************************************************)
(* The personalised candidate pool.                                        *)
(***************************************************************************)
\* the place of category c among the purchased categories: larger counts
\* first, equal counts in the order of their first purchase
CategoryPlace(history, c) ==
    LET cats == history.categories
        at == CHOOSE k \in DOMAIN cats : cats[k].category = c
    IN  1 + Cardinality({k \in DOMAIN cats :
                            \/ cats[k].count > cats[at].count
                            \/ cats[k].count = cats[at].count /\ k < at})

\* the place of id in the sponsored list of category c
SponsoredIndex(c, id) ==
    CHOOSE k \in DOMAIN SPONSORED_BY_CATEGORY[c] : SPONSORED_BY_CATEGORY[c][k] = id

\* the ways id is a sponsored product of a related category of a purchased
\* category: place of the purchased category, place of the related category in
\* its list, place of id in the sponsored list
RelatedWays(history, id) ==
    {<<CategoryPlace(history, c), j, SponsoredIndex(relatedCategories[c][j], id)>> :
        <<c, j>> \in {<<c, j>> \in PurchasedCategories(history) \X (1..2) :
                        /\ j \in DOMAIN relatedCategories[c]
                        /\ Includes(SPONSORED_BY_CATEGORY[relatedCategories[c][j]], id)}}

\* <<a, b, c>> as one number, a first
Lex(t) == 10000 * t[1] + 100 * t[2] + t[3]

\* the place of an unpurchased catalog product in the pool, as a number that
\* grows along the pool: sponsored products of purchased categories, then
\* those of related categories, then the remaining catalog products
PoolPlace(history, id) ==
    LET own == {c \in PurchasedCategories(history) :
                   Includes(SPONSORED_BY_CATEGORY[c], id)}
        ways == RelatedWays(history, id)
    IN  IF own # {}
        THEN LET c == CHOOSE c \in own : TRUE
             IN  1000000 + Lex(<<CategoryPlace(history, c), 0, SponsoredIndex(c, id)>>)
        ELSE IF ways # {}
        THEN 2000000 + Lex(CHOOSE w \in ways : \A v \in ways : Lex(w) <= Lex(v))
        ELSE 3000000 + CatalogIndex(id)

\* C31: with a non-empty history the winners of a slot spec are the first
\* slotCount entries of the pool that lists the unpurchased sponsored products
\* of the purchased categories (larger counts first, ties in first-purchased
\* order), then the unpurchased products of their related categories in the
\* same category order, then the remaining unpurchased catalog products in
\* catalog order.
C31_PersonalizedPoolOrder ==
    \A i \in AnsweredAuctions : \A j \in DOMAIN calls[i].results :
        LET history == calls[i].history
            ids == WinnerIds(calls[i].results[j])
            unpurchased == CatalogIds \ history.productIds
        IN  history.categories # <<>>
                => /\ Range(ids) \subseteq unpurchased
                   /\ Len(ids) = Min(calls[i].auctions[j].slots,
                                     Cardinality(unpurchased))
                   /\ \A k, m \in DOMAIN ids :
                         k < m => PoolPlace(history, ids[k]) < PoolPlace(history, ids[m])
                   /\ \A k \in DOMAIN ids : \A x \in unpurchased :
                         PoolPlace(history, x) < PoolPlace(history, ids[k])
                             => Includes(ids, x)

\* prod-003 (food) was bought once, then prod-010 (home) twice; 12 slots: home
\* goes first, then the related categories of home and of food, then the rest
C31_Witness ==
    \E i \in AnsweredAuctions :
        /\ calls[i].history.categories = << [category |-> "food", count |-> 1],
                                            [category |-> "home", count |-> 2] >>
        /\ calls[i].auctions[1].slots = 12
        /\ WinnerIds(calls[i].results[1])
              = << "prod-012", "prod-001", "prod-002", "prod-005", "prod-006",
                   "prod-009", "prod-004", "prod-007", "prod-008", "prod-011" >>

(***************************************************************************)
(* Queue claims: empty flushes, retries, conservation, overlap, order.     *)
(***************************************************************************)
\* how a flush that found the queue empty ends: flushEvents returns [], the
\* interval callback does nothing
EmptyFlushOutcomes ==
    { [op |-> "flushEvents", result |-> "returned", acks |-> <<>>],
      [op |-> "timer", result |-> "idle"] }

\* the events requests in flight
EventsCalls == {i \in DOMAIN calls : IsEventsCall(calls[i])}

\* C32: while the three pending lists are empty no step sends an events
\* request; a flushEvents call then returns an empty list, and it and a timer
\* tick leave the status, the queue and the calls in flight as they are.
C32_EmptyQueueFlush ==
    [][ /\ ~hasEvents(pendingEvents)
           => /\ count'.flushes = count.flushes
              /\ Cardinality(EventsCalls') <= Cardinality(EventsCalls)
        /\ (outcome' \in EmptyFlushOutcomes /\ outcome' # outcome)
           => /\ ~hasEvents(pendingEvents)
              /\ status' = status
              /\ pendingEvents' = pendingEvents
              /\ calls' = calls
              /\ delivered' = delivered
              /\ outcome'.op = "flushEvents" => outcome'.acks = <<>> ]_vars

\* flushEvents has returned [] on a client whose earlier flush had failed and
\* whose events have been delivered since
C32_Witness ==
    /\ outcome = [op |-> "flushEvents", result |-> "returned", acks |-> <<>>]
    /\ status.errors # <<>>
    /\ status.eventsSentToday > 0
    /\ ~hasEvents(pendingEvents) /\ calls = <<>>

\* the step is the catch block of the flush whose request is calls[i]
FlushFails(i) ==
    /\ i \in EventsCalls
    /\ calls[i].phase = "error"
    /\ Len(calls') = Len(calls) \/ calls' = RemoveAt(calls, i)
    /\ status'.errors # status.errors

\* C33: the step that handles a failed flush puts the batch back in the queue
\* and issues no events request; a request is only issued by a later timer
\* tick or flushEvents call, which takes the whole queue.
C33_NoSynchronousRetry ==
    [][ /\ \A i \in DOMAIN calls :
              FlushFails(i)
                  => /\ count'.flushes = count.flushes
                     /\ calls' = RemoveAt(calls, i)
                     /\ Range(EventIds(calls[i].events))
                            \subseteq Range(EventIds(pendingEvents'))
        /\ count'.flushes > count.flushes
              => /\ status' = status
                 /\ hasEvents(pendingEvents) /\ ~hasEvents(pendingEvents')
                 /\ calls'[Len(calls')].events = pendingEvents ]_vars

\* a flush has failed: its event waits in the queue, nothing is in flight and
\* no second request was issued
C33_Witness ==
    /\ outcome.op \in {"timer", "flushEvents"}
    /\ outcome.result \in {"thrown", "swallowed"}
    /\ Len(status.errors) = 1
    /\ hasEvents(pendingEvents)
    /\ calls = <<>>
    /\ count.flushes = 1

Kinds == {"impressions", "clicks", "purchases"}

\* the ids of a list of events, in order
ListIds(list) == [k \in DOMAIN list |-> list[k].id]

\* the ids of kind in the batches of the requests cs, in order
RECURSIVE InFlightIds(_, _)
InFlightIds(cs, kind) ==
    IF cs = <<>> THEN <<>>
    ELSE (IF IsEventsCall(Head(cs)) THEN ListIds(Head(cs).events[kind]) ELSE <<>>)
         \o InFlightIds(Tail(cs), kind)

\* the ids of the events of kind the client holds: pending, then in the
\* flushes in flight
Held(kind) == ListIds(pendingEvents[kind]) \o InFlightIds(calls, kind)

HeldAll == Held("impressions") \o Held("clicks") \o Held("purchases")

\* every event reported so far is, once, pending, in flight or delivered, and
\* nothing else is
Conserved ==
    LET held == HeldAll
    IN  /\ \A e \in 1..count.reported :
              Occurrences(held, e) + CopiesIn(e, delivered) = 1
        /\ Range(held) \cup BagToSet(delivered) \subseteq 1..count.reported
        /\ status.eventsSentToday = BagCardinality(delivered)

\* an event stays of its kind: the events held of a kind (each held once, by
\* Conserved) grow by a report and shrink by a successful flush only
KindKept ==
    \A kind \in Kinds :
        LET before == Range(Held(kind))
            after == Range(Held(kind)')
        IN  \/ pendingEvents'[kind] = pendingEvents[kind] /\ calls' = calls
            \/ after = before
            \/ /\ count'.reported > count.reported
               /\ before \subseteq after
               /\ delivered' = delivered
            \/ /\ delivered' # delivered
               /\ after \subseteq before
               /\ count'.reported = count.reported

\* C34: for a client that is not destroyed, in every reachable state and for
\* each kind, the events ever passed to reportEvent are the disjoint union of
\* the pending queue, the batches in flight and the batches of the flushes
\* that succeeded, and eventsSentToday is the size of the succeeded batches.
C34_EventConservation ==
    /\ [](flushInterval => Conserved)
    /\ [][flushInterval => KindKept]_vars

\* of two reported events one was delivered and the other, after a failed
\* flush, waits in the queue
C34_Witness ==
    /\ flushInterval
    /\ count.reported = 2
    /\ BagCardinality(delivered) = 1
    /\ Len(EventIds(pendingEvents)) = 1
    /\ status.errors # <<>>
    /\ calls = <<>>

\* the batches of two requests in flight share no event
BatchesDisjoint ==
    \A i, j \in EventsCalls :
        i # j => Range(EventIds(calls[i].events))
                     \cap Range(EventIds(calls[j].events)) = {}

\* C35: the batches of two flushes in flight together share no event, and when
\* a flush that overlapped another fails, each of its events is in the pending
\* queue exactly once, as is every other pending event.
C35_OverlappingFlushesDisjoint ==
    /\ []BatchesDisjoint
    /\ [][ \A i \in DOMAIN calls :
              (FlushFails(i) /\ calls[i].overlap)
                  => /\ \A e \in Range(EventIds(calls[i].events)) :
                           Occurrences(EventIds(pendingEvents'), e) = 1
                     /\ NoDuplicates(EventIds(pendingEvents')) ]_vars

\* two flushes were in flight together and both failed: the two events wait
\* in the queue
C35_Witness ==
    /\ count.flushes = 2
    /\ Len(status.errors) = 2
    /\ ~owed.serial
    /\ Range(EventIds(pendingEvents)) = {1, 2}
    /\ Len(EventIds(pendingEvents)) = 2
    /\ calls = <<>>

\* C36: when a flush fails, its batch is appended at the tail of each pending
\* list, behind the events reported while it was in flight, so that the next
\* flush lists those before the events of the failed batch.
C36_RequeueAtTail ==
    [][ /\ \A i \in DOMAIN calls :
              FlushFails(i)
                  => \A kind \in Kinds :
                        pendingEvents'[kind]
                            = pendingEvents[kind] \o calls[i].events[kind]
        /\ count'.flushes > count.flushes
              => \A kind \in Kinds :
                    calls'[Len(calls')].events[kind] = pendingEvents[kind] ]_vars

\* impression 1 failed while impression 2 was reported; the next request, in
\* flight, lists impression 2 first
C36_Witness ==
    /\ status.errors # <<>>
    /\ \E i \in EventsCalls : ListIds(calls[i].events.impressions) = <<2, 1>>

(***************************************************************************)
(* Health claims: flush failures, stickiness.                              *)
(***************************************************************************)
\* the errors of the log recorded for the events endpoint
FlushErrors == {k \in DOMAIN status.errors : status.errors[k].endpoint = EVENTS}

\* C37: on a client none of whose auctions has failed (rate 100), failed
\* flushes, however many, leave apiHealth 'healthy'; and the step that handles
\* a failed flush changes apiHealth only if the rate is below 80.
C37_FlushFailuresKeepHealth ==
    /\ [](count.auctionErr = 0
            => /\ status.auctionSuccessRate = 100 * RateScale
               /\ status.apiHealth = "healthy")
    /\ [][ \A i \in DOMAIN calls :
              (FlushFails(i) /\ status'.apiHealth # status.apiHealth)
                  => status.auctionSuccessRate < DegradedBelow * RateScale ]_vars

\* three flushes have failed on a client whose auctions all succeeded
C37_Witness ==
    /\ Cardinality(FlushErrors) = 3
    /\ count.auctionErr = 0 /\ count.auctionOk > 0
    /\ status.apiHealth = "healthy"
    /\ calls = <<>>

\* the step is the catch block of the call calls[i], which records its error
ErrorHandled(i) ==
    /\ calls[i].phase = "error"
    /\ calls' = RemoveAt(calls, i)

\* C38: once apiHealth has left 'healthy' no createAuction, flush, reportEvent
\* or clearErrors brings it back; apiHealth improves only from 'down' to
\* 'degraded', and only in a step that records an error while the rate is in
\* [50, 80).
C38_HealthSticky ==
    [][ /\ status.apiHealth # "healthy" => status'.apiHealth # "healthy"
        /\ status.apiHealth = "degraded" => status'.apiHealth # "healthy"
        /\ (status.apiHealth = "down" /\ status'.apiHealth # "down")
              => /\ status'.apiHealth = "degraded"
                 /\ \E i \in DOMAIN calls : ErrorHandled(i)
                 /\ status'.auctionSuccessRate >= DownBelow * RateScale
                 /\ status'.auctionSuccessRate < DegradedBelow * RateScale ]_vars

\* seven auctions failed ('down', rate 47.8), one succeeded (rate 53.05), then
\* a flush failed: 'degraded', with a rate of 80 or more out of reach
C38_Witness ==
    /\ count.auctionErr = 7 /\ count.auctionOk = 1
    /\ status.auctionSuccessRate > 53 * RateScale
    /\ status.apiHealth = "degraded"
    /\ outcome = [op |-> "timer", result |-> "swallowed"]

(***************************************************************************)
(* Server claims: at-most-once ingestion, consistency of the history.      *)
(***************************************************************************)
\* the ids of the batches the events handler has processed and answered, not
\* yet continued by the client
RECURSIVE AnsweredIds(_)
AnsweredIds(cs) ==
    IF cs = <<>> THEN <<>>
    ELSE (IF IsEventsCall(Head(cs)) /\ Head(cs).phase = "ok"
          THEN EventIds(Head(cs).events) ELSE <<>>)
         \o AnsweredIds(Tail(cs))

\* the events the handler has processed, each as often as it was processed
Processed == delivered (+) BagOfSeq(AnsweredIds(calls))

\* the sum of the category counts
RECURSIVE SumCounts(_)
SumCounts(categories) ==
    IF categories = <<>> THEN 0
    ELSE Head(categories).count + SumCounts(Tail(categories))

\* C39: with the mock server as transport no reported event is processed by
\* the events handler more than once, whatever flushes fail, overlap or are
\* re-queued: the history changes only when a request is processed, none of
\* whose events was processed before, and then by one per catalog item line;
\* so the counts never exceed the events reported (each purchase reported in
\* these behaviours has one item line).
C39_AtMostOnceIngestion ==
    /\ [](/\ \A e \in BagToSet(Processed) : CopiesIn(e, Processed) = 1
          /\ SumCounts(purchaseHistory.categories) <= count.reported)
    /\ [][ purchaseHistory' # purchaseHistory
              => \E i \in EventsCalls :
                    /\ Len(calls') = Len(calls)
                    /\ calls[i].phase = "sent" /\ calls'[i].phase = "ok"
                    /\ Range(EventIds(calls[i].events)) \cap BagToSet(Processed) = {}
                    /\ SumCounts(purchaseHistory'.categories)
                           = SumCounts(purchaseHistory.categories)
                             + Len(ItemLines(calls[i].events.purchases)) ]_vars

\* the purchase reported was flushed twice, the first attempt failed, and it
\* counts once in the history
C39_Witness ==
    /\ count.reported = 1 /\ count.flushes = 2
    /\ status.errors # <<>>
    /\ BagIn(1, delivered)
    /\ purchaseHistory.categories = << [category |-> "electronics", count |-> 1] >>

\* the two parts of a purchase history agree
HistoryConsistent(history) ==
    /\ (history.categories = <<>>) <=> (history.productIds = {})
    /\ \A k \in DOMAIN history.categories : history.categories[k].count >= 1
    /\ \A k, m \in DOMAIN history.categories :
          history.categories[k].category = history.categories[m].category => k = m
    /\ history.productIds \subseteq CatalogIds
    /\ SumCounts(history.categories) >= Cardinality(history.productIds)

\* C40: in every reachable state the category counts are empty exactly when
\* the purchased-id set is, every count is at least 1, every purchased id is a
\* catalog id and the counts sum to at least the number of purchased ids; so
\* an auction is answered with the default candidates exactly when no catalog
\* product was ingested since the last clear (in these behaviours a
\* personalised answer never equals the default one).
C40_HistoryConsistency ==
    /\ HistoryConsistent(purchaseHistory)
    /\ \A i \in AnsweredAuctions :
          /\ HistoryConsistent(calls[i].history)
          /\ \A j \in DOMAIN calls[i].results :
                (calls[i].ingested = {})
                    <=> (WinnerIds(calls[i].results[j])
                            = DefaultSponsored(calls[i].auctions[j].slots))

\* prod-003 was bought in two purchases (one id, count 2) and an auction is
\* answered from the history: prod-007, of a related category of food, wins
C40_Witness ==
    /\ purchaseHistory = [categories |-> << [category |-> "food", count |-> 2] >>,
                          productIds |-> {"prod-003"}]
    /\ \E i \in AnsweredAuctions :
          /\ calls[i].ingested = {"prod-003"}
          /\ WinnerIds(calls[i].results[1]) = <<"prod-007">>

=============================================================================
